---- MODULE Spec2Model ----
(***************************************************************************)
(* Model of the canister resource of terraform-provider-ic                 *)
(* (internal/provider/canister_resource.go, arg.go, provider.go).          *)
(*                                                                         *)
(* The resource's lifecycle operations are modelled one remote call at a   *)
(* time: every action is "one remote call returns, and the handler runs    *)
(* its local code up to the next remote call or to its return".  The       *)
(* remote platform (management canister, ledger, cycles minting canister)  *)
(* lies outside the repository; it is modelled from the boundary contract  *)
(* of the specification (section 4.3 and the glossary).                    *)
(***************************************************************************)
EXTENDS Integers, Sequences, FiniteSets, TLC

VARIABLES
    endpoint,   \* provider configuration: the endpoint attribute
    desired,    \* the desired attributes of the resource (the plan's source)
    state,      \* persisted Terraform state: [present, data]
    remote,     \* the remote platform: sequence of canisters, id = index
    op,         \* lifecycle operation that ran last or is running
    pc,         \* position of the running operation, "done" between operations
    data,       \* the handler's CanisterResourceModel
    loc,        \* the handler's local variables
    calls,      \* remote calls issued by the operation, in order
    diags,      \* diagnostics of the operation: [errors, warnings]
    prev,       \* summary of the operation that ran before the current one
    snap,       \* remote canister and state when the current operation began
    ops,        \* operations started so far
    faults,     \* transport faults injected so far
    edits,      \* changes of the desired attributes so far
    fn,         \* response of the last did_encode call: [ran, input, ok, result]
    loader,     \* the running or returned NewIdentityFromPEM call
    provider,   \* IcProvider.Configure: [pos, pemPath, errors, resourceData]
    others      \* the resources whose handlers wait while this one runs

vars == <<endpoint, desired, state, remote, op, pc, data, loc, calls, diags,
          prev, snap, ops, faults, edits, fn, loader,
          provider, others>>

(***************************************************************************)
(* Bounds of the model.                                                    *)
(***************************************************************************)
MaxOps == 3
MaxFaults == 1
MaxEdits == 1

(***************************************************************************)
(* Attribute values of the plugin framework: null, unknown or known.       *)
(* Text that the code inspects character by character (hex strings) is a   *)
(* sequence of one-character strings; bytes are numbers 0..255.            *)
(***************************************************************************)
StringNull == [k |-> "null", v |-> <<>>]
StringUnknown == [k |-> "unknown", v |-> <<>>]
StringValue(s) == [k |-> "known", v |-> s]
IsNull(a) == a.k = "null"
IsUnknown(a) == a.k = "unknown"
\* basetypes.StringValue.ValueString: "" for null and unknown
ValueString(a) == IF a.k = "known" THEN a.v ELSE <<>>

ListNull == [k |-> "null", v |-> <<>>]
ListUnknown == [k |-> "unknown", v |-> <<>>]
ListValue(l) == [k |-> "known", v |-> l]

IdUnknown == [k |-> "unknown", v |-> 0]
IdValue(n) == [k |-> "known", v |-> n]

(***************************************************************************)
(* Principals.  "p0" is the principal of the provider identity; "bad" is a *)
(* text that principal.Decode rejects.                                     *)
(***************************************************************************)
ProviderPrincipal == "p0"
Principals == {"p0", "p1"}
PrincipalDecodes(s) == s \in Principals

\* canister identifiers are numbers: n >= 1 is the text of the n-th canister's
\* principal, 0 a text that principal.Decode rejects
CanisterIdDecodes(id) == id >= 1

(***************************************************************************)
(* encoding/hex                                                            *)
(***************************************************************************)
HexDigits == <<"0", "1", "2", "3", "4", "5", "6", "7",
               "8", "9", "a", "b", "c", "d", "e", "f">>
UpperHexDigits == <<"0", "1", "2", "3", "4", "5", "6", "7",
                    "8", "9", "A", "B", "C", "D", "E", "F">>

HexEncodeToString(bytes) ==
    [i \in 1..(2 * Len(bytes)) |->
        IF i % 2 = 1 THEN HexDigits[(bytes[(i + 1) \div 2] \div 16) + 1]
                     ELSE HexDigits[(bytes[i \div 2] % 16) + 1]]

IsHexChar(c) == \E i \in 1..16 : HexDigits[i] = c \/ UpperHexDigits[i] = c
HexCharValue(c) ==
    (CHOOSE i \in 1..16 : HexDigits[i] = c \/ UpperHexDigits[i] = c) - 1

\* hex.DecodeString: an error for an odd length or a character that is no
\* hex digit
HexDecodeString(s) ==
    IF Len(s) % 2 = 1 \/ (\E i \in 1..Len(s) : ~IsHexChar(s[i]))
    THEN [ok |-> FALSE, v |-> <<>>]
    ELSE [ok |-> TRUE,
          v |-> [i \in 1..(Len(s) \div 2) |->
                   16 * HexCharValue(s[2 * i - 1]) + HexCharValue(s[2 * i])]]

(***************************************************************************)
(* Files and digests.  os.ReadFile fails for a path that names no file.    *)
(* sha256.Sum256 is modelled by an injective one-byte digest.              *)
(***************************************************************************)
WasmPaths == {"a.wasm", "b.wasm"}
ReadFile(path) ==
    IF path = "a.wasm" THEN [ok |-> TRUE, v |-> <<1>>]
    ELSE IF path = "b.wasm" THEN [ok |-> TRUE, v |-> <<2>>]
    ELSE [ok |-> FALSE, v |-> <<>>]

Sum256(bytes) == <<(144 + 17 * bytes[1]) % 256>>

(***************************************************************************)
(* Terraform values (tftypes.Value) of the dynamic arg attribute: a        *)
(* string, a bool, a number, a list or an object.  An object is its        *)
(* entries [key, val] with distinct keys; a Go map has no order of its     *)
(* own, the order of the entries is the order in which `range` visits      *)
(* them.                                                                   *)
(***************************************************************************)
TFString(s) == [t |-> "string", s |-> s, m |-> <<>>]
TFBool(b) == [t |-> "bool", s |-> b, m |-> <<>>]
TFNumber(n) == [t |-> "number", s |-> n, m |-> <<>>]
TFList(l) == [t |-> "list", s |-> "", m |-> [i \in 1..Len(l) |-> [key |-> "", val |-> l[i]]]]
TFObject(m) == [t |-> "object", s |-> "", m |-> m]
Entry(k, v) == [key |-> k, val |-> v]

\* Candid values handed to idl.Marshal: a Go string or a map[string]any
CandidText(s) == [t |-> "text", s |-> s, m |-> <<>>]
CandidRecord(m) == [t |-> "record", s |-> "", m |-> m]
CandidNone == [t |-> "none", s |-> "", m |-> <<>>]

Ok(v) == [ok |-> TRUE, v |-> v]
Err == [ok |-> FALSE, v |-> CandidNone]

HasKey(m, k) == \E i \in 1..Len(m) : m[i].key = k
Lookup(m, k) == m[CHOOSE i \in 1..Len(m) : m[i].key = k].val

\* val.As(&str) succeeds for a string only
readTextValue(val) ==
    IF val.t = "string" THEN Ok(CandidText(val.s)) ELSE Err

RECURSIVE TFValToCandid(_)
RECURSIVE readWrappedValue(_)
RECURSIVE readRecordValue(_)
RECURSIVE readRecordEntries(_)

\* variant of readRecordEntries that stops after the first entry it visits
readRecordEntriesFirstOnly(m) ==
    IF m = <<>> THEN Ok(<<>>)
    ELSE LET h == TFValToCandid(Head(m).val)
         IN  IF h.ok THEN Ok(<<Entry(Head(m).key, h.v)>>) ELSE Err

\* the loop of readRecordValue: the first entry that fails fails the record
readRecordEntries(m) ==
    IF m = <<>> THEN Ok(<<>>)
    ELSE LET h == TFValToCandid(Head(m).val)
             r == readRecordEntries(Tail(m))
         IN  IF h.ok /\ r.ok
             THEN Ok(<<Entry(Head(m).key, h.v)>> \o r.v)
             ELSE Err

readRecordValue(val) ==
    IF val.t # "object" THEN Err
    ELSE LET r == readRecordEntries(val.m)
         IN  IF r.ok THEN Ok(CandidRecord(r.v)) ELSE Err

\* variant of readWrappedValue that recognizes no wrapper
readWrappedValueNever(val) == Err

readWrappedValue(val) ==
    IF val.t # "object" THEN Err
    ELSE IF ~HasKey(val.m, "__didType") THEN Err
    ELSE IF ~HasKey(val.m, "__didValue") THEN Err
    ELSE LET idlType == Lookup(val.m, "__didType")
             idlValue == Lookup(val.m, "__didValue")
             ty == readTextValue(idlType)
         IN  IF ~ty.ok THEN Err
             ELSE IF ty.v.s = "text" THEN readTextValue(idlValue)
             ELSE IF ty.v.s = "record" THEN readRecordValue(idlValue)
             ELSE Err

TFValToCandid(val) ==
    LET wrapped == readWrappedValue(val)
        text == readTextValue(val)
        rec == readRecordValue(val)
    IN  IF wrapped.ok THEN wrapped
        ELSE IF text.ok THEN text
        ELSE IF rec.ok THEN rec
        ELSE Err

(***************************************************************************)
(* idl.Marshal of the one-element argument list (agent-go, outside the     *)
(* repository): the binary Candid format for text and record.              *)
(***************************************************************************)
Utf8(s) ==
    CASE s = "" -> <<>>
      [] s = "Hi" -> <<72, 105>>
      [] s = "Yo" -> <<89, 111>>
      [] s = "g" -> <<103>>
      [] s = "h" -> <<104>>
      [] s = "text" -> <<116, 101, 120, 116>>
      [] s = "record" -> <<114, 101, 99, 111, 114, 100>>
      [] s = "blob" -> <<98, 108, 111, 98>>
      [] s = "__didType" -> <<95, 95, 100, 105, 100, 84, 121, 112, 101>>
      [] s = "__didValue" -> <<95, 95, 100, 105, 100, 86, 97, 108, 117, 101>>

RECURSIVE Leb128(_)
Leb128(n) ==
    IF n < 128 THEN <<n>> ELSE <<128 + (n % 128)>> \o Leb128(n \div 128)

\* the field hash of Candid, h = (h * 223 + byte) mod 2^32, kept as two
\* 16-bit halves [hi, lo]
RECURSIVE IdlHashFrom(_, _)
IdlHashFrom(h, bytes) ==
    IF bytes = <<>> THEN h
    ELSE LET lo == h.lo * 223 + Head(bytes)
             hi == h.hi * 223 + (lo \div 65536)
         IN  IdlHashFrom([hi |-> hi % 65536, lo |-> lo % 65536], Tail(bytes))
IdlHash(name) == IdlHashFrom([hi |-> 0, lo |-> 0], Utf8(name))
HashLeq(a, b) == a.hi < b.hi \/ (a.hi = b.hi /\ a.lo <= b.lo)

\* LEB128 of a 32-bit number given as halves: its 7-bit groups, low first
Leb128Hash(h) ==
    LET g == <<h.lo % 128, (h.lo \div 128) % 128,
               (h.lo \div 16384) + 4 * (h.hi % 32),
               (h.hi \div 32) % 128, h.hi \div 4096>>
        n == IF \E i \in 1..5 : g[i] # 0
             THEN CHOOSE i \in 1..5 : g[i] # 0 /\ \A j \in (i + 1)..5 : g[j] = 0
             ELSE 1
    IN  [i \in 1..n |-> IF i < n THEN 128 + g[i] ELSE g[i]]

RECURSIVE Flatten(_)
Flatten(ss) == IF ss = <<>> THEN <<>> ELSE Head(ss) \o Flatten(Tail(ss))

\* the entries of a record ordered by the hash of their names
RECURSIVE SortByHash(_)
SortByHash(m) ==
    IF m = <<>> THEN <<>>
    ELSE LET lo == CHOOSE i \in 1..Len(m) :
                     \A j \in 1..Len(m) : HashLeq(IdlHash(m[i].key), IdlHash(m[j].key))
             rest == [j \in 1..(Len(m) - 1) |-> IF j < lo THEN m[j] ELSE m[j + 1]]
         IN  <<m[lo]>> \o SortByHash(rest)

\* [table, ref, val]: the type definitions v adds after `table`, the reference
\* to v's type and v's value bytes
RECURSIVE MarshalValue(_, _)
RECURSIVE MarshalFields(_, _)
MarshalFields(table, m) ==
    IF m = <<>> THEN [table |-> table, fields |-> <<>>, val |-> <<>>]
    ELSE LET h == MarshalValue(table, Head(m).val)
             r == MarshalFields(h.table, Tail(m))
         IN  [table |-> r.table,
              fields |-> Leb128Hash(IdlHash(Head(m).key)) \o h.ref \o r.fields,
              val |-> h.val \o r.val]

MarshalValue(table, v) ==
    IF v.t = "text"
    THEN [table |-> table, ref |-> <<113>>,
          val |-> Leb128(Len(Utf8(v.s))) \o Utf8(v.s)]
    ELSE LET f == MarshalFields(table, SortByHash(v.m))
         IN  [table |-> Append(f.table, <<108>> \o Leb128(Len(v.m)) \o f.fields),
              ref |-> <<Len(f.table)>>,
              val |-> f.val]

Marshal(v) ==
    LET r == MarshalValue(<<>>, v)
    IN  <<68, 73, 68, 76>> \o Leb128(Len(r.table)) \o Flatten(r.table)
          \o <<1>> \o r.ref \o r.val

(***************************************************************************)
(* candid.EncodeValueString (agent-go, outside the repository) on the      *)
(* textual literal of a value: the reference the equivalence test compares *)
(* did_encode with.  A literal is text or a record of literals; the type   *)
(* table lists the record types children first, the fields of a record in  *)
(* the order of their hashes.                                              *)
(***************************************************************************)
RefFields(m) ==
    LET n == Len(m)
        perm == CHOOSE f \in [1..n -> 1..n] :
                  /\ \A a, b \in 1..n : a # b => f[a] # f[b]
                  /\ \A a, b \in 1..n :
                       a < b => /\ HashLeq(IdlHash(m[f[a]].key), IdlHash(m[f[b]].key))
                                /\ IdlHash(m[f[a]].key) # IdlHash(m[f[b]].key)
    IN  [a \in 1..n |-> m[perm[a]]]

\* the record types of a literal, numbered from `base`; the literal's own
\* type is the last one
RECURSIVE RefTypes(_, _)
RefTypes(base, lit) ==
    IF lit.t = "text" THEN <<>>
    ELSE LET fs == RefFields(lit.m)
             count(a) == Len(RefTypes(0, fs[a].val))
             start(a) == base + Len(Flatten([b \in 1..(a - 1) |->
                                               [c \in 1..count(b) |-> 0]]))
             ref(a) == IF fs[a].val.t = "text" THEN <<113>>
                       ELSE <<start(a) + count(a) - 1>>
             inner == Flatten([a \in 1..Len(fs) |-> RefTypes(start(a), fs[a].val)])
             own == <<108>> \o Leb128(Len(fs))
                     \o Flatten([a \in 1..Len(fs) |->
                                   Leb128Hash(IdlHash(fs[a].key)) \o ref(a)])
         IN  Append(inner, own)

RECURSIVE RefValueBytes(_)
RefValueBytes(lit) ==
    IF lit.t = "text" THEN Leb128(Len(Utf8(lit.s))) \o Utf8(lit.s)
    ELSE LET fs == RefFields(lit.m)
         IN  Flatten([a \in 1..Len(fs) |-> RefValueBytes(fs[a].val)])

EncodeValueString(lit) ==
    LET types == RefTypes(0, lit)
    IN  <<68, 73, 68, 76>> \o Leb128(Len(types)) \o Flatten(types)
          \o <<1>> \o (IF lit.t = "text" THEN <<113>> ELSE <<Len(types) - 1>>)
          \o RefValueBytes(lit)

(***************************************************************************)
(* CanisterResourceModel and the provider configuration.                   *)
(***************************************************************************)
PathNull == [k |-> "null", v |-> ""]
PathValue(s) == [k |-> "known", v |-> s]
DynamicNull == [k |-> "null", v |-> TFString("")]
DynamicValue(x) == [k |-> "known", v |-> x]

icpApi == "https://icp-api.io/"
LocalEndpoint == "http://localhost:4943"
Endpoints == {PathNull, PathValue(LocalEndpoint)}

\* variant of InferConfig that defaults only a null endpoint
InferConfigNullOnly(ep) == IF ep.k = "null" THEN icpApi ELSE ep.v

\* IcProviderModel.InferConfig: the host of the client configuration
InferConfig(ep) == IF ep.k \in {"unknown", "null"} THEN icpApi ELSE ep.v

Model(id, controllers, arg, argHex, wasmFile, wasmSha256) ==
    [Id |-> id, Controllers |-> controllers, Arg |-> arg, ArgHex |-> argHex,
     WasmFile |-> wasmFile, WasmSha256 |-> wasmSha256]

NoData == Model(IdUnknown, ListNull, DynamicNull, StringNull, PathNull, StringNull)

\* variant of InferDefaultControllers that defaults to the empty list
InferDefaultControllersEmpty(d) ==
    IF d.Controllers.k \in {"null", "unknown"}
    THEN [d EXCEPT !.Controllers = ListValue(<<>>)]
    ELSE d

InferDefaultControllers(d) ==
    LET step1 == IF IsNull(d.Controllers)
                 THEN [d EXCEPT !.Controllers = ListValue(<<ProviderPrincipal>>)]
                 ELSE d
    IN  IF IsUnknown(step1.Controllers)
        THEN [step1 EXCEPT !.Controllers = ListValue(<<ProviderPrincipal>>)]
        ELSE step1

\* variant of StringControllers that reads null and unknown controllers as
\* the empty list
StringControllersNilAsEmpty(d) ==
    IF d.Controllers.k = "known" THEN [nil |-> FALSE, v |-> d.Controllers.v]
    ELSE [nil |-> FALSE, v |-> <<>>]

\* nil for null and for unknown controllers, the elements otherwise
StringControllers(d) ==
    IF IsNull(d.Controllers) THEN [nil |-> TRUE, v |-> <<>>]
    ELSE IF IsUnknown(d.Controllers) THEN [nil |-> TRUE, v |-> <<>>]
    ELSE [nil |-> FALSE, v |-> d.Controllers.v]

\* variant of GetArgHex in which no argument is the encoding of a Candid null
GetArgHexCandidNull(d) ==
    IF ~IsNull(d.ArgHex) THEN [ok |-> TRUE, v |-> ValueString(d.ArgHex)]
    ELSE IF IsNull(d.Arg)
    THEN [ok |-> TRUE, v |-> HexEncodeToString(<<68, 73, 68, 76, 0, 1, 127>>)]
    ELSE LET didValue == TFValToCandid(d.Arg.v)
         IN  IF ~didValue.ok THEN [ok |-> FALSE, v |-> <<>>]
             ELSE [ok |-> TRUE, v |-> HexEncodeToString(Marshal(didValue.v))]

\* the Candid argument, hex encoded
GetArgHex(d) ==
    IF ~IsNull(d.ArgHex) THEN [ok |-> TRUE, v |-> ValueString(d.ArgHex)]
    ELSE IF IsNull(d.Arg) THEN [ok |-> TRUE, v |-> <<>>]
    ELSE LET didValue == TFValToCandid(d.Arg.v)
         IN  IF ~didValue.ok THEN [ok |-> FALSE, v |-> <<>>]
             ELSE [ok |-> TRUE, v |-> HexEncodeToString(Marshal(didValue.v))]

CanisterInstallModeInstall == [mode |-> "install", skip_pre_upgrade |-> FALSE]
\* variant of CanisterInstallModeUpgrade that skips the pre-upgrade hook
CanisterInstallModeUpgradeSkipping == [mode |-> "upgrade", skip_pre_upgrade |-> TRUE]
CanisterInstallModeUpgrade == [mode |-> "upgrade", skip_pre_upgrade |-> FALSE]
NoInstallMode == [mode |-> "", skip_pre_upgrade |-> FALSE]

\* variant of InstallModeFor that ignores the module hash
InstallModeAlwaysInstall(moduleHash) == CanisterInstallModeInstall

\* InferInstallMode, after the module hash was read
InstallModeFor(moduleHash) ==
    IF Len(moduleHash) = 0 THEN CanisterInstallModeInstall
    ELSE CanisterInstallModeUpgrade

(***************************************************************************)
(* The desired attributes a configuration can ask for.  ConfigValidators   *)
(* rejects a configuration that sets both arg and arg_hex.                 *)
(***************************************************************************)
ControllerChoices ==
    {ListNull, ListUnknown, ListValue(<<>>), ListValue(<<"p1">>),
     ListValue(<<"p0", "p1">>), ListValue(<<"p0", "bad">>)}
WasmFileChoices == {PathNull, PathValue("a.wasm"), PathValue("b.wasm")}
WasmSha256Choices ==
    {StringUnknown, StringValue(HexEncodeToString(Sum256(<<1>>)))}
ArgChoices == {DynamicNull, DynamicValue(TFString("Hi")), DynamicValue(TFBool("true"))}
ArgHexChoices == {StringNull, StringValue(<<"4", "4">>), StringValue(<<"z", "z">>)}

\* variant of ConfigValidators without the Conflicting validator
ConfigValidatorsNone(d) == TRUE

ConfigValidators(d) == ~(~IsNull(d.Arg) /\ ~IsNull(d.ArgHex))

Desireds ==
    {d \in [Id : {IdUnknown}, Controllers : ControllerChoices, Arg : ArgChoices,
            ArgHex : ArgHexChoices, WasmFile : WasmFileChoices,
            WasmSha256 : WasmSha256Choices] : ConfigValidators(d)}

\* The endpoint decides the allocation calls only, and these take nothing from
\* the resource's attributes: the production endpoint starts from the
\* configurations without an argument and with null or full controllers (the
\* others are reached by editing), the local endpoint from every configuration.
Configs ==
    ({PathNull} \X {d \in Desireds : /\ IsNull(d.Arg) /\ IsNull(d.ArgHex)
                                      /\ d.Controllers \in {ListNull, ListValue(<<"p0", "p1">>)}})
    \cup ({PathValue(LocalEndpoint)} \X Desireds)

(***************************************************************************)
(* The remote platform (external): canisters and the management calls.     *)
(* A management call is rejected unless the caller is a controller.        *)
(***************************************************************************)
Canister(controllers, hash, arg) ==
    [controllers |-> controllers, module_hash |-> hash, arg |-> arg,
     status |-> "running", touched |-> FALSE]
NoCanister == [controllers |-> {}, module_hash |-> <<>>, arg |-> <<>>,
               status |-> "none", touched |-> FALSE]
NewCanister == Canister({ProviderPrincipal}, <<>>, <<>>)

CallerControls(c) == ProviderPrincipal \in c.controllers

Range(seq) == {seq[i] : i \in 1..Len(seq)}

\* install_code: mode install needs an empty canister, mode upgrade a module
InstallCodeEffect(c, installMode, wasm, arg) ==
    IF /\ CallerControls(c)
       /\ (installMode.mode = "install") = (c.module_hash = <<>>)
    THEN [ok |-> TRUE, c |-> [c EXCEPT !.module_hash = Sum256(wasm), !.arg = arg]]
    ELSE [ok |-> FALSE, c |-> c]

\* uninstall_code: not an error on a canister without code
UninstallCodeEffect(c) ==
    IF CallerControls(c)
    THEN [ok |-> TRUE, c |-> [c EXCEPT !.module_hash = <<>>, !.arg = <<>>]]
    ELSE [ok |-> FALSE, c |-> c]

UpdateSettingsEffect(c, controllers) ==
    IF CallerControls(c)
    THEN [ok |-> TRUE, c |-> [c EXCEPT !.controllers = Range(controllers)]]
    ELSE [ok |-> FALSE, c |-> c]

(***************************************************************************)
(* Handler code between two remote calls.  Each operator gives the         *)
(* handler's next position: the remote call it is about to issue, or       *)
(* "done" with the error it reports or with the state it saves.            *)
(***************************************************************************)
LocInit == [canisterId |-> 0, argHex |-> <<>>, installMode |-> NoInstallMode,
            wasm |-> <<>>, argRaw |-> <<>>, controllers |-> <<>>,
            infoHash |-> <<>>]

Goto(p, d, l) ==
    [pc |-> p, data |-> d, loc |-> l, err |-> "", warn |-> {}, save |-> FALSE]
Fail(msg, d, l) ==
    [pc |-> "done", data |-> d, loc |-> l, err |-> msg, warn |-> {}, save |-> FALSE]
Save(d, l, w) ==
    [pc |-> "done", data |-> d, loc |-> l, err |-> "", warn |-> w, save |-> TRUE]

\* setCanisterControllers up to agent.UpdateSettings
setCanisterControllers(d, l, controllers) ==
    IF ~CanisterIdDecodes(l.canisterId)
    THEN Fail("Could not update controllers", d, l)
    ELSE IF \E i \in 1..Len(controllers) : ~PrincipalDecodes(controllers[i])
    THEN Fail("Could not update controllers", d, l)
    ELSE Goto("UpdateSettings", d, [l EXCEPT !.controllers = controllers])

\* setCanisterCode up to the module hash read of InferInstallMode
setCanisterCode(d, l, argHex) ==
    Goto("InferInstallMode", d, [l EXCEPT !.argHex = argHex])

\* variant of setCanisterCodeCheck without the checksum comparison
setCanisterCodeCheckNoSha(d, l, moduleHash) ==
    LET installMode == InstallModeFor(moduleHash)
        wasmModule == ReadFile(d.WasmFile.v)
        argRaw == HexDecodeString(l.argHex)
    IN  IF ~wasmModule.ok THEN Fail("Could not update code", d, l)
        ELSE IF ~argRaw.ok THEN Fail("Could not update code", d, l)
        ELSE Goto("InstallCode", d,
                  [l EXCEPT !.installMode = installMode, !.wasm = wasmModule.v,
                            !.argRaw = argRaw.v])

\* variant of setCanisterCodeCheck that passes no argument to an upgrade
setCanisterCodeCheckNoUpgradeArg(d, l, moduleHash) ==
    LET installMode == InstallModeFor(moduleHash)
        wasmModule == ReadFile(d.WasmFile.v)
        wasmSha256 == ValueString(d.WasmSha256)
        argRaw == HexDecodeString(l.argHex)
    IN  IF ~wasmModule.ok THEN Fail("Could not update code", d, l)
        ELSE IF /\ Len(wasmSha256) > 0
                /\ wasmSha256 # HexEncodeToString(Sum256(wasmModule.v))
        THEN Fail("Could not update code", d, l)
        ELSE IF ~argRaw.ok THEN Fail("Could not update code", d, l)
        ELSE Goto("InstallCode", d,
                  [l EXCEPT !.installMode = installMode, !.wasm = wasmModule.v,
                            !.argRaw = IF installMode.mode = "upgrade"
                                       THEN <<>> ELSE argRaw.v])

\* setCanisterCode from the module hash read up to agent.InstallCode
setCanisterCodeCheck(d, l, moduleHash) ==
    LET installMode == InstallModeFor(moduleHash)
        wasmModule == ReadFile(d.WasmFile.v)
        wasmSha256 == ValueString(d.WasmSha256)
        argRaw == HexDecodeString(l.argHex)
    IN  IF ~wasmModule.ok THEN Fail("Could not update code", d, l)
        ELSE IF /\ Len(wasmSha256) > 0
                /\ wasmSha256 # HexEncodeToString(Sum256(wasmModule.v))
        THEN Fail("Could not update code", d, l)
        ELSE IF ~argRaw.ok THEN Fail("Could not update code", d, l)
        ELSE Goto("InstallCode", d,
                  [l EXCEPT !.installMode = installMode, !.wasm = wasmModule.v,
                            !.argRaw = argRaw.v])

\* variant of CreateCodeInstall that pushes the controllers before the code
CreateCodeInstallControllersFirst(d0, l0, canisterId) ==
    LET d == InferDefaultControllers([d0 EXCEPT !.Id = IdValue(canisterId)])
        l == [l0 EXCEPT !.canisterId = canisterId]
    IN  setCanisterControllers(d, l, StringControllers(d).v)

\* Create from the canister id up to the next remote call
CreateCodeInstall(d0, l0, canisterId) ==
    LET d == [d0 EXCEPT !.Id = IdValue(canisterId)]
        l == [l0 EXCEPT !.canisterId = canisterId]
        argHex == GetArgHex(d)
        doInstallCode == ~IsNull(d.WasmFile)
    IN  IF ~argHex.ok THEN Fail("Could not read argument", d, l)
        ELSE IF doInstallCode THEN setCanisterCode(d, l, argHex.v)
        ELSE Goto("ReadCanisterInfo", d, l)

\* variant of CreateControllers that keeps the planned checksum
CreateControllersKeepsPlannedSha(d0, l, infoWasmSha256) ==
    LET wasmSha256 == ValueString(d0.WasmSha256)
        doInstallCode == ~IsNull(d0.WasmFile)
        w == IF doInstallCode /\ Len(wasmSha256) > 0 /\ wasmSha256 # infoWasmSha256
             THEN {"Expected Wasm module sha does not match canister info sha"}
             ELSE {}
        d == InferDefaultControllers(d0)
        controllers == StringControllers(d)
        next == IF controllers.nil THEN Fail("Controllers not set", d, l)
                ELSE setCanisterControllers(d, l, controllers.v)
    IN  [next EXCEPT !.warn = w]

\* Create from the canister info up to agent.UpdateSettings
CreateControllers(d0, l, infoWasmSha256) ==
    LET wasmSha256 == ValueString(d0.WasmSha256)
        doInstallCode == ~IsNull(d0.WasmFile)
        w == IF doInstallCode /\ Len(wasmSha256) > 0 /\ wasmSha256 # infoWasmSha256
             THEN {"Expected Wasm module sha does not match canister info sha"}
             ELSE {}
        d1 == IF Len(wasmSha256) = 0
              THEN [d0 EXCEPT !.WasmSha256 = StringValue(infoWasmSha256)]
              ELSE d0
        d == InferDefaultControllers(d1)
        controllers == StringControllers(d)
        next == IF controllers.nil THEN Fail("Controllers not set", d, l)
                ELSE setCanisterControllers(d, l, controllers.v)
    IN  [next EXCEPT !.warn = w]

\* variant of UpdateControllers that goes to the code without pushing the
\* controllers
UpdateControllersSkipped(d, l0) ==
    LET l == [l0 EXCEPT !.canisterId = d.Id.v]
        argHex == GetArgHex(d)
    IN  IF IsNull(d.WasmFile) THEN Goto("UninstallCode", d, l)
        ELSE IF ~argHex.ok THEN Fail("Could not read argument", d, l)
        ELSE setCanisterCode(d, l, argHex.v)

\* Update up to the first remote call
UpdateControllers(d, l0) ==
    LET l == [l0 EXCEPT !.canisterId = d.Id.v]
        controllers == StringControllers(d)
    IN  IF controllers.nil THEN Fail("Controllers not set", d, l)
        ELSE setCanisterControllers(d, l, controllers.v)

\* Update from the controller push up to the next remote call
UpdateCode(d, l) ==
    IF IsNull(d.WasmFile) THEN Goto("UninstallCode", d, l)
    ELSE LET argHex == GetArgHex(d)
         IN  IF ~argHex.ok THEN Fail("Could not read argument", d, l)
             ELSE setCanisterCode(d, l, argHex.v)

\* variant of AfterUpdateSettings in which Update never touches the code
AfterUpdateSettingsSaves(o, d, l) == Save(d, l, {})

\* what follows a successful agent.UpdateSettings
AfterUpdateSettings(o, d, l) ==
    IF o = "Create" THEN Save(d, l, {}) ELSE UpdateCode(d, l)

\* what follows a successful agent.InstallCode
AfterInstallCode(o, d, l) ==
    IF o = "Create" THEN Goto("ReadCanisterInfo", d, l) ELSE Save(d, l, {})

\* variant of AfterUninstallCode that keeps the planned checksum
AfterUninstallCodeKeepSha(d, l) == Save(d, l, {})

\* what follows a successful agent.UninstallCode in Update
AfterUninstallCode(d, l) ==
    Save([d EXCEPT !.WasmSha256 = StringValue(<<>>)], l, {})

\* createCanister: the first remote call of the chosen procedure
createCanister(host) ==
    IF host = icpApi THEN "GetIcpXdrConversionRate"
    ELSE "ProvisionalCreateCanisterWithCycles"

(***************************************************************************)
(* State machine.                                                          *)
(***************************************************************************)
NoDiags == [errors |-> <<>>, warnings |-> {}]
\* no identity file is being read
NoLoader ==
    [data |-> <<>>, pos |-> "none", tried |-> <<>>, errs |-> <<>>,
     identity |-> [scheme |-> "nil", key |-> ""], err |-> <<>>]

\* Configure is not followed; resourceData is what it hands to the resources,
\* here nothing
NoProvider == [pos |-> "none", pemPath |-> "", errors |-> <<>>,
               resourceData |-> [host |-> "", identity |-> NoLoader.identity]]

\* no did_encode call has been made
NoFn == [ran |-> FALSE, input |-> TFString(""), ok |-> FALSE, result |-> <<>>]
NoState == [present |-> FALSE, data |-> NoData]
NoCall == [name |-> "", res |-> "", id |-> 0, mode |-> NoInstallMode,
           controllers |-> <<>>, hash |-> <<>>, wasm |-> <<>>, arg |-> <<>>]
NoPrev == [op |-> "none", same |-> FALSE, ok |-> FALSE, nfail |-> 0,
           ctrl |-> FALSE, alloc |-> FALSE]
NoSnap == [plan |-> NoData, canister |-> NoCanister, state |-> NoState,
           ctrl |-> FALSE, planNull |-> FALSE]

Init ==
    /\ \E cfg \in Configs : endpoint = cfg[1] /\ desired = cfg[2]
    /\ state = NoState
    /\ remote = <<>>
    /\ op = "none"
    /\ pc = "done"
    /\ data = NoData
    /\ loc = LocInit
    /\ calls = <<>>
    /\ diags = NoDiags
    /\ prev = NoPrev
    /\ snap = NoSnap
    /\ ops = 0
    /\ faults = 0
    /\ edits = 0
    /\ fn = NoFn
    /\ loader = NoLoader
    /\ provider = NoProvider
    /\ others = <<>>

Failed(log) == {i \in 1..Len(log) : log[i].res # "ok"}

\* the operation with this log was handed a new canister
Allocated(log) ==
    \E i \in 1..Len(log) :
        /\ log[i].name \in {"ProvisionalCreateCanisterWithCycles",
                            "NotifyCreateCanister"}
        /\ log[i].res = "ok"

\* the handler moves to position r, reporting and saving what r says
Apply(dg, st, r) ==
    /\ pc' = r.pc
    /\ data' = IF r.pc = "done" THEN NoData ELSE r.data
    /\ loc' = IF r.pc = "done" THEN LocInit ELSE r.loc
    /\ diags' = [errors |-> IF r.err = "" THEN dg.errors
                            ELSE Append(dg.errors, r.err),
                 warnings |-> dg.warnings \cup r.warn]
    /\ state' = IF r.save THEN [present |-> TRUE, data |-> r.data] ELSE st

\* the canister an identifier names, if any
CanisterOf(id) == IF id \in 1..Len(remote) THEN remote[id] ELSE NoCanister

\* the host starts operation o with the given plan on canister c
Start(o, plan, c) ==
    /\ pc = "done"
    /\ ops < MaxOps
    /\ op' = o
    /\ ops' = ops + 1
    /\ calls' = <<>>
    /\ prev' = [op |-> op, same |-> (plan = snap.plan), ok |-> diags.errors = <<>>,
                nfail |-> Cardinality(Failed(calls)), ctrl |-> snap.ctrl,
                alloc |-> Allocated(calls)]
    /\ snap' = [plan |-> plan, canister |-> c, state |-> state,
                ctrl |-> CallerControls(c), planNull |-> FALSE]

\* transport faults: the request is dropped, or it is served and the reply lost
FaultChoices == IF faults < MaxFaults THEN {"none", "dropped", "lost"} ELSE {"none"}
ReadFaultChoices == IF faults < MaxFaults THEN {"none", "dropped"} ELSE {"none"}

\* variant of Issue in which the handler ignores the error of the call
IssueIgnoringError(call, f, eff, okNext, failNext) ==
    LET res == IF f # "none" THEN "fault" ELSE IF eff.ok THEN "ok" ELSE "reject"
    IN  /\ remote' = IF f # "dropped" /\ eff.ok
                     THEN [remote EXCEPT ![loc.canisterId] = eff.c]
                     ELSE remote
        /\ faults' = IF f = "none" THEN faults ELSE faults + 1
        /\ calls' = Append(calls, [call EXCEPT !.res = res, !.id = loc.canisterId])
        /\ Apply(diags, state, okNext)
        /\ UNCHANGED <<endpoint, others, provider, loader, fn, desired, op, prev, snap, ops, edits>>

\* a management call on the operation's canister with platform effect eff
Issue(call, f, eff, okNext, failNext) ==
    LET res == IF f # "none" THEN "fault" ELSE IF eff.ok THEN "ok" ELSE "reject"
    IN  /\ remote' = IF f # "dropped" /\ eff.ok
                     THEN [remote EXCEPT ![loc.canisterId] = eff.c]
                     ELSE remote
        /\ faults' = IF f = "none" THEN faults ELSE faults + 1
        /\ calls' = Append(calls, [call EXCEPT !.res = res, !.id = loc.canisterId])
        /\ Apply(diags, state, IF res = "ok" THEN okNext ELSE failNext)
        /\ UNCHANGED <<endpoint, others, provider, loader, fn, desired, op, prev, snap, ops, edits>>

\* an answer that carries an error in place of a result: no conversion rate,
\* a transfer or notification result without Ok
RefusedChoices == IF faults < MaxFaults THEN {"refused"} ELSE {}

\* variant of IssueCreate in which the handler goes on after a failed call
IssueCreateIgnoringError(name, f, allocates, okNext, failNext) ==
    LET res == IF f = "refused" THEN "reject" ELSE IF f # "none" THEN "fault" ELSE "ok"
    IN  /\ remote' = IF allocates /\ f \in {"none", "lost"}
                     THEN Append(remote, NewCanister)
                     ELSE remote
        /\ faults' = IF f = "none" THEN faults ELSE faults + 1
        /\ calls' = Append(calls, [NoCall EXCEPT !.name = name, !.res = res,
                                                 !.id = IF allocates /\ f = "none"
                                                        THEN Len(remote) + 1 ELSE 0])
        /\ Apply(diags, state, okNext)
        /\ UNCHANGED <<endpoint, others, provider, loader, fn, desired, op, prev, snap, ops, edits>>

\* a call that allocates a canister when `allocates`, and changes nothing else
IssueCreate(name, f, allocates, okNext, failNext) ==
    LET res == IF f = "refused" THEN "reject" ELSE IF f # "none" THEN "fault" ELSE "ok"
    IN  /\ remote' = IF allocates /\ f \in {"none", "lost"}
                     THEN Append(remote, NewCanister)
                     ELSE remote
        /\ faults' = IF f = "none" THEN faults ELSE faults + 1
        /\ calls' = Append(calls, [NoCall EXCEPT !.name = name, !.res = res,
                                                 !.id = IF allocates /\ f = "none"
                                                        THEN Len(remote) + 1 ELSE 0])
        /\ Apply(diags, state, IF res = "ok" THEN okNext ELSE failNext)
        /\ UNCHANGED <<endpoint, others, provider, loader, fn, desired, op, prev, snap, ops, edits>>

\* the configurations the operator can apply next: the current one, or the
\* current one with one facet changed (the controllers, the code module or
\* the argument)
OneFacetChanged(d) ==
    {[d EXCEPT !.Controllers = c] : c \in ControllerChoices}
    \cup {[d EXCEPT !.WasmFile = w[1], !.WasmSha256 = w[2]] :
            w \in WasmFileChoices \X WasmSha256Choices}
    \cup {e \in {[d EXCEPT !.Arg = a[1], !.ArgHex = a[2]] :
                   a \in ArgChoices \X ArgHexChoices} : ConfigValidators(e)}
NextDesireds ==
    IF edits < MaxEdits THEN OneFacetChanged(desired) ELSE {desired}

Configure(d) ==
    /\ desired' = d
    /\ edits' = IF d = desired THEN edits ELSE edits + 1

(* Create: req.Plan.Get, then createCanister *)
CreateBegin ==
    /\ ~state.present
    /\ \E d \in NextDesireds :
         /\ Configure(d)
         /\ Start("Create", d, NoCanister)
         /\ Apply(NoDiags, state, Goto(createCanister(InferConfig(endpoint)), d, LocInit))
    /\ UNCHANGED <<endpoint, others, provider, loader, fn, remote, faults>>

(* Update: req.Plan.Get (the id comes from the prior state), then the code  *)
(* up to the controller push                                               *)
UpdateBegin ==
    /\ state.present
    /\ \E d \in NextDesireds :
         LET plan == [d EXCEPT !.Id = state.data.Id]
         IN  /\ Configure(d)
             /\ Start("Update", plan, CanisterOf(plan.Id.v))
             /\ Apply(NoDiags, state, UpdateControllers(plan, LocInit))
    /\ UNCHANGED <<endpoint, others, provider, loader, fn, remote, faults>>

(* createCanisterProvisional *)
ProvisionalCreateCanisterWithCycles ==
    /\ pc = "ProvisionalCreateCanisterWithCycles"
    /\ \E f \in FaultChoices :
         IssueCreate("ProvisionalCreateCanisterWithCycles", f, TRUE,
                     CreateCodeInstall(data, loc, Len(remote) + 1),
                     Fail("Could not create canister", data, loc))

(* createCanisterCMC: conversion rate, transfer, notification; each answer  *)
(* may be lost in transport or carry an error                              *)
GetIcpXdrConversionRate ==
    /\ pc = "GetIcpXdrConversionRate"
    /\ \E f \in ReadFaultChoices \cup RefusedChoices :
         IssueCreate("GetIcpXdrConversionRate", f, FALSE,
                     Goto("Transfer", data, loc),
                     Fail("Could not create canister", data, loc))

Transfer ==
    /\ pc = "Transfer"
    /\ \E f \in FaultChoices \cup RefusedChoices :
         IssueCreate("Transfer", f, FALSE,
                     Goto("NotifyCreateCanister", data, loc),
                     Fail("Could not create canister", data, loc))

NotifyCreateCanister ==
    /\ pc = "NotifyCreateCanister"
    /\ \E f \in FaultChoices \cup RefusedChoices :
         IssueCreate("NotifyCreateCanister", f, TRUE,
                     CreateCodeInstall(data, loc, Len(remote) + 1),
                     Fail("Could not create canister", data, loc))

(* InferInstallMode: agent.GetCanisterModuleHash, then setCanisterCode up    *)
(* to agent.InstallCode                                                    *)
InferInstallMode ==
    /\ pc = "InferInstallMode"
    /\ \E f \in ReadFaultChoices :
         LET c == remote[loc.canisterId]
         IN  Issue([NoCall EXCEPT !.name = "GetCanisterModuleHash",
                                  !.hash = c.module_hash],
                   f, [ok |-> TRUE, c |-> c],
                   setCanisterCodeCheck(data, loc, c.module_hash),
                   Fail("Could not update code", data, loc))

(* agent.InstallCode *)
InstallCode ==
    /\ pc = "InstallCode"
    /\ \E f \in FaultChoices :
         Issue([NoCall EXCEPT !.name = "InstallCode", !.mode = loc.installMode,
                              !.wasm = loc.wasm, !.arg = loc.argRaw],
               f,
               InstallCodeEffect(remote[loc.canisterId], loc.installMode,
                                 loc.wasm, loc.argRaw),
               AfterInstallCode(op, data, loc),
               Fail("Could not update code", data, loc))

(* setCanisterEmpty: agent.UninstallCode *)
UninstallCode ==
    /\ pc = "UninstallCode"
    /\ \E f \in FaultChoices :
         Issue([NoCall EXCEPT !.name = "UninstallCode"], f,
               UninstallCodeEffect(remote[loc.canisterId]),
               AfterUninstallCode(data, loc),
               Fail("Could not uninstall code", data, loc))

(* ReadCanisterInfo: agent.GetCanisterModuleHash *)
ReadCanisterInfo ==
    /\ pc = "ReadCanisterInfo"
    /\ \E f \in ReadFaultChoices :
         LET c == remote[loc.canisterId]
         IN  Issue([NoCall EXCEPT !.name = "GetCanisterModuleHash",
                                  !.hash = c.module_hash],
                   f, [ok |-> TRUE, c |-> c],
                   Goto("GetCanisterControllers", data,
                        [loc EXCEPT !.infoHash = HexEncodeToString(c.module_hash)]),
                   Fail("Could not read canister info", data, loc))

(* ReadCanisterInfo: agent.GetCanisterControllers, then Create up to the    *)
(* controller push                                                         *)
GetCanisterControllers ==
    /\ pc = "GetCanisterControllers"
    /\ \E f \in ReadFaultChoices :
         LET c == remote[loc.canisterId]
         IN  Issue([NoCall EXCEPT !.name = "GetCanisterControllers"],
                   f, [ok |-> TRUE, c |-> c],
                   CreateControllers(data, loc, loc.infoHash),
                   Fail("Could not read canister info", data, loc))

(* setCanisterControllers: agent.UpdateSettings *)
UpdateSettings ==
    /\ pc = "UpdateSettings"
    /\ \E f \in FaultChoices :
         Issue([NoCall EXCEPT !.name = "UpdateSettings",
                              !.controllers = loc.controllers],
               f,
               UpdateSettingsEffect(remote[loc.canisterId], loc.controllers),
               AfterUpdateSettings(op, data, loc),
               Fail("Could not update controllers", data, loc))

Next ==
    \/ CreateBegin
    \/ UpdateBegin
    \/ ProvisionalCreateCanisterWithCycles
    \/ GetIcpXdrConversionRate
    \/ Transfer
    \/ NotifyCreateCanister
    \/ InferInstallMode
    \/ InstallCode
    \/ UninstallCode
    \/ ReadCanisterInfo
    \/ GetCanisterControllers
    \/ UpdateSettings

Spec == Init /\ [][Next]_vars

(***************************************************************************)
(* The rest of the resource's lifecycle: Read, Delete, ImportState and      *)
(* ModifyPlan, and an external actor who administers canisters outside the *)
(* provider.                                                               *)
(***************************************************************************)
UnknownEndpoint == [k |-> "unknown", v |-> ""]
\* the production host written without the trailing slash
icpApiNoSlash == "https://icp-api.io"
LifeEndpoints ==
    {PathNull, UnknownEndpoint, PathValue(LocalEndpoint), PathValue(icpApi),
     PathValue(icpApiNoSlash)}

\* a configuration that sets no attribute
UnsetDesired ==
    Model(IdUnknown, ListNull, DynamicNull, StringNull, PathNull, StringUnknown)

LifeDesireds ==
    {UnsetDesired,
     Model(IdUnknown, ListUnknown, DynamicNull, StringNull, PathValue("a.wasm"),
           StringUnknown),
     Model(IdUnknown, ListValue(<<"p0", "p1">>), DynamicValue(TFString("Hi")),
           StringNull, PathValue("a.wasm"),
           StringValue(HexEncodeToString(Sum256(<<1>>)))),
     Model(IdUnknown, ListValue(<<"p1">>), DynamicNull, StringNull, PathNull,
           StringUnknown),
     Model(IdUnknown, ListValue(<<"p0">>), DynamicNull, StringNull,
           PathValue("b.wasm"), StringValue(HexEncodeToString(Sum256(<<1>>))))}

\* the provider and resource configurations followed through the lifecycle:
\* every endpoint with the unset configuration, every configuration with the
\* local endpoint
LifeConfigs ==
    (LifeEndpoints \X {UnsetDesired})
    \cup ({PathValue(LocalEndpoint)} \X LifeDesireds)

\* a canister created outside the provider, with code installed
ExternalCanister == Canister({"p0", "p1"}, Sum256(<<3>>), <<>>)

\* stop_canister: only for a controller, not an error on a stopped canister
StopCanisterEffect(c) ==
    IF CallerControls(c)
    THEN [ok |-> TRUE, c |-> [c EXCEPT !.status = "stopped"]]
    ELSE [ok |-> FALSE, c |-> c]

\* delete_canister: only for a controller, and only on a stopped canister
DeleteCanisterEffect(c) ==
    IF CallerControls(c) /\ c.status = "stopped"
    THEN [ok |-> TRUE, c |-> [c EXCEPT !.status = "deleted", !.controllers = {},
                                       !.module_hash = <<>>, !.arg = <<>>]]
    ELSE [ok |-> FALSE, c |-> c]

\* read_state of the module hash and the controllers: open to every caller,
\* fails for a canister that does not exist
ReadStateEffect(c) == [ok |-> c.status \in {"running", "stopped"}, c |-> c]

\* the controllers as the platform lists them
ControllerList(c) == SelectSeq(<<"p0", "p1">>, LAMBDA p : p \in c.controllers)

\* what an external actor can do to canister c: add or remove the second
\* controller, or install another module
ExternalChoices(c) ==
    {[c EXCEPT !.controllers = IF "p1" \in @ THEN @ \ {"p1"} ELSE @ \cup {"p1"}],
     [c EXCEPT !.module_hash = Sum256(<<3>>), !.arg = <<>>]}

\* variant of ReadHandler that forgets the stored checksum
ReadHandlerForgetsSha(st) ==
    Save([st.data EXCEPT !.WasmSha256 = StringNull], LocInit, {})

\* Read: req.State.Get, resp.State.Set
ReadHandler(st) == Save(st.data, LocInit, {})

\* variant of DeleteStart that does not stop the canister
DeleteStartWithoutStop(d, l0) ==
    LET l == [l0 EXCEPT !.canisterId = d.Id.v]
    IN  IF ~CanisterIdDecodes(d.Id.v)
        THEN Fail("Could not parse canister ID", d, l)
        ELSE Goto("DeleteCanister", d, l)

\* Delete up to agent.StopCanister
DeleteStart(d, l0) ==
    LET l == [l0 EXCEPT !.canisterId = d.Id.v]
    IN  IF ~CanisterIdDecodes(d.Id.v)
        THEN Fail("Could not parse canister ID", d, l)
        ELSE Goto("StopCanister", d, l)

\* Delete from agent.StopCanister up to agent.DeleteCanister
AfterStopCanister(d, l) == Goto("DeleteCanister", d, l)

\* ImportState up to the first read of ReadCanisterInfo; an identifier that
\* does not decode ends the import with the id attribute set and no diagnostic
ImportStart(id) ==
    LET d == [NoData EXCEPT !.Id = IdValue(id)]
        l == [LocInit EXCEPT !.canisterId = id]
    IN  IF ~CanisterIdDecodes(id) THEN Save(d, l, {})
        ELSE Goto("ImportModuleHash", d, l)

\* variant of ImportFinish that leaves the checksum to the configuration
ImportFinishWithoutSha(d, l, controllers) ==
    Save([d EXCEPT !.Controllers = ListValue(controllers)], l, {})

\* ImportState after ReadCanisterInfo
ImportFinish(d, l, controllers) ==
    Save([d EXCEPT !.WasmSha256 = StringValue(l.infoHash),
                   !.Controllers = ListValue(controllers)], l, {})

SelfExclusionWarning ==
    "Target set of controllers does not include principal used by Terraform"

\* variant of ModifyPlanDiags that takes unset controllers for an empty list
ModifyPlanDiagsNilAsEmpty(planNull, d) ==
    IF planNull THEN NoDiags
    ELSE LET controllers == StringControllers(d)
         IN  IF \E i \in 1..Len(controllers.v) : controllers.v[i] = ProviderPrincipal
             THEN NoDiags
             ELSE [errors |-> <<>>, warnings |-> {SelfExclusionWarning}]

\* ModifyPlan: the diagnostics for the plan (planNull: a deletion plan)
ModifyPlanDiags(planNull, d) ==
    IF planNull THEN NoDiags
    ELSE LET controllers == StringControllers(d)
         IN  IF controllers.nil THEN NoDiags
             ELSE IF \E i \in 1..Len(controllers.v) :
                        controllers.v[i] = ProviderPrincipal
             THEN NoDiags
             ELSE [errors |-> <<>>, warnings |-> {SelfExclusionWarning}]

(* Read: the prior state is written back *)
Read ==
    /\ state.present
    /\ Start("Read", state.data, CanisterOf(state.data.Id.v))
    /\ Apply(NoDiags, state, ReadHandler(state))
    /\ UNCHANGED <<endpoint, others, provider, loader, fn, desired, remote, faults, edits>>

(* Delete: req.State.Get, then the code up to agent.StopCanister *)
DeleteBegin ==
    /\ state.present
    /\ Start("Delete", state.data, CanisterOf(state.data.Id.v))
    /\ Apply(NoDiags, state, DeleteStart(state.data, LocInit))
    /\ UNCHANGED <<endpoint, others, provider, loader, fn, desired, remote, faults, edits>>

(* agent.StopCanister *)
StopCanister ==
    /\ pc = "StopCanister"
    /\ \E f \in FaultChoices :
         Issue([NoCall EXCEPT !.name = "StopCanister"], f,
               StopCanisterEffect(remote[loc.canisterId]),
               AfterStopCanister(data, loc),
               Fail("Could not stop canister before deletion", data, loc))

(* agent.DeleteCanister; the host removes the resource from the state when  *)
(* Delete returns without an error                                         *)
DeleteCanister ==
    /\ pc = "DeleteCanister"
    /\ \E f \in FaultChoices :
         LET eff == DeleteCanisterEffect(remote[loc.canisterId])
             res == IF f # "none" THEN "fault" ELSE IF eff.ok THEN "ok" ELSE "reject"
         IN  /\ remote' = IF f # "dropped" /\ eff.ok
                          THEN [remote EXCEPT ![loc.canisterId] = eff.c]
                          ELSE remote
             /\ faults' = IF f = "none" THEN faults ELSE faults + 1
             /\ calls' = Append(calls, [NoCall EXCEPT !.name = "DeleteCanister",
                                                      !.res = res,
                                                      !.id = loc.canisterId])
             /\ Apply(diags, IF res = "ok" THEN NoState ELSE state,
                      IF res = "ok" THEN Goto("done", data, loc)
                      ELSE Fail("Could not delete canister", data, loc))
             /\ UNCHANGED <<endpoint, others, provider, loader, fn, desired, op, prev, snap, ops, edits>>

\* the identifiers an import can be given: a text that is no principal, the
\* canisters that exist or existed, and a principal that names no canister
ImportIds == 0..(Len(remote) + 1)

(* ImportState: the id attribute, then the code up to ReadCanisterInfo *)
ImportState ==
    /\ ~state.present
    /\ \E id \in ImportIds :
         /\ Start("Import", [NoData EXCEPT !.Id = IdValue(id)], CanisterOf(id))
         /\ Apply(NoDiags, state, ImportStart(id))
    /\ UNCHANGED <<endpoint, others, provider, loader, fn, desired, remote, faults, edits>>

(* ImportState, ReadCanisterInfo: agent.GetCanisterModuleHash *)
ImportModuleHash ==
    /\ pc = "ImportModuleHash"
    /\ \E f \in ReadFaultChoices :
         LET c == CanisterOf(loc.canisterId)
         IN  Issue([NoCall EXCEPT !.name = "GetCanisterModuleHash",
                                  !.hash = c.module_hash],
                   f, ReadStateEffect(c),
                   Goto("ImportControllers", data,
                        [loc EXCEPT !.infoHash = HexEncodeToString(c.module_hash)]),
                   Fail("Cannot read canister info", data, loc))

(* ImportState, ReadCanisterInfo: agent.GetCanisterControllers, then the    *)
(* attributes are set                                                      *)
ImportControllers ==
    /\ pc = "ImportControllers"
    /\ \E f \in ReadFaultChoices :
         LET c == CanisterOf(loc.canisterId)
         IN  Issue([NoCall EXCEPT !.name = "GetCanisterControllers",
                                  !.controllers = ControllerList(c)],
                   f, ReadStateEffect(c),
                   ImportFinish(data, loc, ControllerList(c)),
                   Fail("Cannot read canister info", data, loc))

(* ModifyPlan, for the planned configuration or for a deletion plan *)
ModifyPlan ==
    /\ pc = "done"
    /\ ops < MaxOps
    /\ \E planNull \in {FALSE} \cup {b \in {TRUE} : state.present} :
         LET plan == IF planNull THEN NoData
                     ELSE IF state.present
                     THEN [desired EXCEPT !.Id = state.data.Id]
                     ELSE desired
         IN  /\ prev' = [op |-> op, same |-> (plan = snap.plan),
                         ok |-> diags.errors = <<>>,
                         nfail |-> Cardinality(Failed(calls)), ctrl |-> snap.ctrl,
                alloc |-> Allocated(calls)]
             /\ snap' = [plan |-> plan, canister |-> NoCanister, state |-> state,
                         ctrl |-> FALSE, planNull |-> planNull]
             /\ diags' = ModifyPlanDiags(planNull, plan)
    /\ op' = "ModifyPlan"
    /\ ops' = ops + 1
    /\ calls' = <<>>
    /\ UNCHANGED <<endpoint, others, provider, loader, fn, desired, state, remote, pc, data, loc, faults, edits>>

(* an external actor changes a canister it has not changed before *)
ExternalChange ==
    /\ \E id \in 1..Len(remote) :
         /\ remote[id].status \in {"running", "stopped"}
         /\ ~remote[id].touched
         /\ \E c \in ExternalChoices(remote[id]) :
              remote' = [remote EXCEPT ![id] = [c EXCEPT !.touched = TRUE]]
    /\ UNCHANGED <<endpoint, others, provider, loader, fn, desired, state, op, pc, data, loc, calls, diags,
                   prev, snap, ops, faults, edits>>

LifeInit ==
    /\ \E cfg \in LifeConfigs : endpoint = cfg[1] /\ desired = cfg[2]
    /\ state = NoState
    /\ remote \in {<<>>, <<ExternalCanister>>}
    /\ op = "none"
    /\ pc = "done"
    /\ data = NoData
    /\ loc = LocInit
    /\ calls = <<>>
    /\ diags = NoDiags
    /\ prev = NoPrev
    /\ snap = NoSnap
    /\ ops = 0
    /\ faults = 0
    /\ edits = MaxEdits
    /\ fn = NoFn
    /\ loader = NoLoader
    /\ provider = NoProvider
    /\ others = <<>>

LifeNext ==
    \/ CreateBegin
    \/ UpdateBegin
    \/ Read
    \/ DeleteBegin
    \/ ImportState
    \/ ModifyPlan
    \/ ExternalChange
    \/ ProvisionalCreateCanisterWithCycles
    \/ GetIcpXdrConversionRate
    \/ Transfer
    \/ NotifyCreateCanister
    \/ InferInstallMode
    \/ InstallCode
    \/ UninstallCode
    \/ ReadCanisterInfo
    \/ GetCanisterControllers
    \/ UpdateSettings
    \/ StopCanister
    \/ DeleteCanister
    \/ ImportModuleHash
    \/ ImportControllers

LifeSpec == LifeInit /\ [][LifeNext]_vars

(***************************************************************************)
(* The argument of the canister: configuration validation, the did_encode  *)
(* function and the bytes handed to InstallCode.  The dynamic values are   *)
(* strings, values of the other primitive kinds, objects of them up to two *)
(* levels deep and objects with the reserved keys.                         *)
(***************************************************************************)
TFLeaves ==
    {TFString("Hi"), TFString(""),
     TFBool("true"), TFNumber("1"), TFList(<<TFString("Hi")>>)}

\* what a wrapper can carry: a leaf or an object of at most two entries
Payloads ==
    TFLeaves
    \cup {TFObject(<<>>), TFObject(<<Entry("g", TFString("Hi"))>>),
          TFObject(<<Entry("g", TFBool("true"))>>),
          TFObject(<<Entry("g", TFString("Hi")), Entry("h", TFString("Yo"))>>),
          TFObject(<<Entry("h", TFString("Yo")), Entry("g", TFString("Hi"))>>)}

\* the object the helpers did_text and did_record build
Wrapper(ty, v) == TFObject(<<Entry("__didType", ty), Entry("__didValue", v)>>)

ArgValues ==
    LET FlatObjects ==
            {TFObject(<<>>)}
            \cup {TFObject(<<Entry("g", l)>>) : l \in TFLeaves}
            \cup {TFObject(<<Entry("g", l), Entry("h", TFString("Yo"))>>) : l \in TFLeaves}
            \cup {TFObject(<<Entry("h", TFString("Yo")), Entry("g", l)>>) : l \in TFLeaves}
        NestedObjects ==
            {TFObject(<<Entry("g", o)>>) : o \in Payloads \ TFLeaves}
            \cup {TFObject(<<Entry("h", TFString("Hi")), Entry("g", o)>>) :
                     o \in Payloads \ TFLeaves}
            \cup {TFObject(<<Entry("g", o), Entry("h", TFString("Hi"))>>) :
                     o \in Payloads \ TFLeaves}
        WrapperTags ==
            {TFString("text"), TFString("record"), TFString("blob"), TFBool("true")}
        Wrappers == {Wrapper(ty, v) : ty \in WrapperTags, v \in Payloads}
        WrappersWithExtra ==
            {TFObject(w.m \o <<Entry("g", x)>>) :
                w \in {Wrapper(TFString("text"), TFString("Hi")),
                       Wrapper(TFString("record"), TFObject(<<Entry("h", TFString("Hi"))>>)),
                       Wrapper(TFString("blob"), TFString("Hi"))},
                x \in {TFString("Yo"), TFBool("true")}}
        NestedWrappers ==
            {TFObject(<<Entry("g", w)>>) :
                w \in {Wrapper(TFString("text"), TFString("Hi")),
                       Wrapper(TFString("text"), TFBool("true")),
                       Wrapper(TFString("blob"), TFString("Hi")),
                       Wrapper(TFString("record"), TFObject(<<Entry("h", TFString("Hi"))>>))}}
            \cup {Wrapper(ty, w) :
                     ty \in {TFString("record"), TFString("text")},
                     w \in {Wrapper(TFString("text"), TFString("Hi")),
                            Wrapper(TFString("blob"), TFString("Hi")),
                            Wrapper(TFString("text"), TFBool("true"))}}
            \cup {Wrapper(TFString("record"),
                          TFObject(<<Entry("g", Wrapper(TFString("text"), TFString("Hi")))>>))}
        HalfWrappers ==
            {TFObject(<<Entry("__didType", TFString("text"))>>),
             TFObject(<<Entry("__didValue", TFString("Hi"))>>)}
    IN  TFLeaves \cup FlatObjects \cup NestedObjects \cup Wrappers
        \cup WrappersWithExtra \cup NestedWrappers \cup HalfWrappers

\* arg_hex as written in a configuration: hex text in either case, the empty
\* text, and texts that are no hex
ArgHexValues ==
    {<<>>, <<"4", "4">>, <<"4", "a">>, <<"4", "A">>, <<"4">>, <<"z", "z">>}

\* the configurations: arg alone, arg_hex alone, neither, and both; with a
\* code module and, for a few, without
ArgConfigs ==
    LET ArgPairs ==
            {<<DynamicValue(v), StringNull>> : v \in ArgValues}
            \cup {<<DynamicNull, StringValue(h)>> : h \in ArgHexValues}
            \cup {<<DynamicNull, StringNull>>}
            \cup {<<DynamicValue(v), StringValue(<<"4", "4">>)>> :
                     v \in {TFString("Hi"), TFBool("true")}}
    IN  {Model(IdUnknown, ListValue(<<"p0", "p1">>), a[1], a[2],
               PathValue("a.wasm"), StringUnknown) : a \in ArgPairs}
        \cup {Model(IdUnknown, ListValue(<<"p0", "p1">>), a[1], a[2],
                    PathNull, StringUnknown) :
                a \in {<<DynamicValue(TFString("Hi")), StringNull>>,
                       <<DynamicValue(TFBool("true")), StringNull>>,
                       <<DynamicValue(TFString("Hi")), StringValue(<<"4", "4">>)>>}}

\* resourcevalidator.Conflicting and ValidateConfig; wasm_sha256 that the
\* configuration leaves out is unknown in the model's configurations
ValidateConfigDiags(d) ==
    [errors |-> IF ConfigValidators(d) THEN <<>>
                ELSE <<"Invalid Attribute Combination">>,
     warnings |-> IF d.WasmSha256.k = "known" /\ IsNull(d.WasmFile)
                  THEN {"Sha256 specified without module"} ELSE {}]

\* variant of ArgEncodeFunction.Run that encodes strings only
ArgEncodeFunctionRunTextOnly(input) ==
    LET didValue == readTextValue(input)
    IN  IF ~didValue.ok
        THEN [ran |-> TRUE, input |-> input, ok |-> FALSE, result |-> <<>>]
        ELSE [ran |-> TRUE, input |-> input, ok |-> TRUE,
              result |-> HexEncodeToString(Marshal(didValue.v))]

\* ArgEncodeFunction.Run
ArgEncodeFunctionRun(input) ==
    LET didValue == TFValToCandid(input)
    IN  IF ~didValue.ok
        THEN [ran |-> TRUE, input |-> input, ok |-> FALSE, result |-> <<>>]
        ELSE [ran |-> TRUE, input |-> input, ok |-> TRUE,
              result |-> HexEncodeToString(Marshal(didValue.v))]

(* the host validates the configuration: ConfigValidators, ValidateConfig *)
ValidateConfig ==
    /\ pc = "done"
    /\ ~(op = "ValidateConfig" /\ snap.plan = desired)
    /\ op' = "ValidateConfig"
    /\ diags' = ValidateConfigDiags(desired)
    /\ snap' = [NoSnap EXCEPT !.plan = desired, !.state = state]
    /\ UNCHANGED <<endpoint, others, provider, loader, fn, desired, state, remote, pc, data, loc, calls,
                   prev, ops, faults, edits>>

\* the host plans and applies a configuration that passed validation
Validated == op = "ValidateConfig" /\ snap.plan = desired /\ diags.errors = <<>>

ValidatedCreate == Validated /\ CreateBegin
ValidatedUpdate == Validated /\ UpdateBegin

(* did_encode applied to the value that the configuration gives to arg *)
ArgEncodeFunction ==
    /\ pc = "done"
    /\ ~fn.ran
    /\ ~IsNull(desired.Arg)
    /\ fn' = ArgEncodeFunctionRun(desired.Arg.v)
    /\ UNCHANGED <<endpoint, others, provider, loader, desired, state, remote, op, pc, data, loc, calls,
                   diags, prev, snap, ops, faults, edits>>

(* the operator replaces arg = v by arg_hex = did_encode(v) *)
ConfigureEncoded ==
    /\ pc = "done"
    /\ fn.ran /\ fn.ok
    /\ desired.Arg = DynamicValue(fn.input)
    /\ IsNull(desired.ArgHex)
    /\ desired' = [desired EXCEPT !.Arg = DynamicNull,
                                  !.ArgHex = StringValue(fn.result)]
    /\ UNCHANGED <<endpoint, others, provider, loader, fn, state, remote, op, pc, data, loc, calls,
                   diags, prev, snap, ops, faults, edits>>

ArgInit ==
    /\ endpoint = PathValue(LocalEndpoint)
    /\ desired \in ArgConfigs
    /\ state = NoState
    /\ remote = <<>>
    /\ op = "none"
    /\ pc = "done"
    /\ data = NoData
    /\ loc = LocInit
    /\ calls = <<>>
    /\ diags = NoDiags
    /\ prev = NoPrev
    /\ snap = NoSnap
    /\ ops = 0
    /\ faults = 0
    /\ edits = MaxEdits
    /\ fn = NoFn
    /\ loader = NoLoader
    /\ provider = NoProvider
    /\ others = <<>>

ArgNext ==
    \/ ValidateConfig
    \/ ValidatedCreate
    \/ ValidatedUpdate
    \/ ArgEncodeFunction
    \/ ConfigureEncoded
    \/ ProvisionalCreateCanisterWithCycles
    \/ InferInstallMode
    \/ InstallCode
    \/ ReadCanisterInfo
    \/ GetCanisterControllers
    \/ UpdateSettings

ArgSpec == ArgInit /\ [][ArgNext]_vars

(***************************************************************************)
(* The identity loader.  The three PEM parsers belong to the agent         *)
(* library: what each of them answers for the bytes of a file is an input, *)
(* a key or one of its errors.                                             *)
(***************************************************************************)
\* the schemes in the order of the calls
Schemes == <<"Ed25519", "Secp256k1", "Prime256v1">>

\* the files: for each scheme the answer of its parser
PEMs ==
    LET Answers == {[ok |-> TRUE, key |-> "key", err |-> ""]}
                   \cup {[ok |-> FALSE, key |-> "", err |-> e] :
                           e \in {"no pem block", "invalid block type", "invalid key"}}
    IN  [{Schemes[i] : i \in 1..3} -> Answers]

\* variant of the step that goes on after a success and returns the identity
\* of the last scheme that parses
NewIdentityFromPEMStepNoEarlyReturn(l) ==
    LET scheme == l.pos
        answer == l.data[scheme]
        tried  == Append(l.tried, scheme)
        errs   == IF answer.ok THEN l.errs ELSE Append(l.errs, answer.err)
        found  == IF answer.ok THEN [scheme |-> scheme, key |-> answer.key]
                  ELSE l.identity
    IN  IF scheme = "Prime256v1"
        THEN [l EXCEPT !.tried = tried, !.errs = errs, !.pos = "returned",
                       !.identity = found,
                       !.err = IF found.scheme = "nil" THEN errs ELSE <<>>]
        ELSE [l EXCEPT !.tried = tried, !.errs = errs, !.identity = found,
                       !.pos = IF scheme = "Ed25519" THEN "Secp256k1" ELSE "Prime256v1"]

\* NewIdentityFromPEM, one parser call and what follows it up to the next call
\* or the return; errors.Join keeps every error it is given, in order
NewIdentityFromPEMStep(l) ==
    LET scheme == l.pos
        answer == l.data[scheme]
        tried  == Append(l.tried, scheme)
        errs   == Append(l.errs, answer.err)
    IN  IF answer.ok
        THEN [l EXCEPT !.tried = tried, !.pos = "returned",
                       !.identity = [scheme |-> scheme, key |-> answer.key]]
        ELSE IF scheme = "Prime256v1"
        THEN [l EXCEPT !.tried = tried, !.errs = errs, !.pos = "returned",
                       !.err = errs]
        ELSE [l EXCEPT !.tried = tried, !.errs = errs,
                       !.pos = IF scheme = "Ed25519" THEN "Secp256k1" ELSE "Prime256v1"]

NewIdentityFromPEM ==
    /\ loader.pos \in {Schemes[i] : i \in 1..3}
    /\ loader' = NewIdentityFromPEMStep(loader)
    /\ UNCHANGED <<endpoint, others, provider, desired, state, remote, op, pc, data, loc, calls,
                   diags, prev, snap, ops, faults, edits, fn>>

\* NewIdentityFromPEM has been called with the bytes of a file
IdInit ==
    /\ endpoint = PathValue(LocalEndpoint)
    /\ desired \in {d \in ArgConfigs : IsNull(d.Arg) /\ IsNull(d.ArgHex)}
    /\ state = NoState
    /\ remote = <<>>
    /\ op = "none"
    /\ pc = "done"
    /\ data = NoData
    /\ loc = LocInit
    /\ calls = <<>>
    /\ diags = NoDiags
    /\ prev = NoPrev
    /\ snap = NoSnap
    /\ ops = 0
    /\ faults = 0
    /\ edits = 0
    /\ fn = NoFn
    /\ \E d \in PEMs : loader = [NoLoader EXCEPT !.data = d, !.pos = "Ed25519"]
    /\ provider = NoProvider
    /\ others = <<>>

IdNext == NewIdentityFromPEM

IdSpec == IdInit /\ [][IdNext]_vars

(***************************************************************************)
(* Provider configuration.  IC_PEM_IDENTITY_PATH is unset (""), names a    *)
(* readable file or names a file that cannot be read.  Calling a method of *)
(* an identity that is nil panics: position "panic".                       *)
(***************************************************************************)
\* Configure from the return of InferConfig: the error, or the log line with
\* config.Identity.Sender() and the configuration for the resources
ConfigureReturn(p, ep, id, err) ==
    IF err # <<>>
    THEN [p EXCEPT !.pos = "done", !.errors = <<"Could not set up IC agent">>]
    ELSE IF id = NoLoader.identity
    THEN [p EXCEPT !.pos = "panic"]
    ELSE [p EXCEPT !.pos = "done",
                   !.resourceData = [host |-> InferConfig(ep), identity |-> id]]

\* Configure, InferConfig and EndpointConfig / MainnetConfig up to the call of
\* NewIdentityFromPEM, or to the end when no file is read
IcProviderConfigure ==
    /\ provider.pos = "Configure"
    /\ \/ /\ provider.pemPath = ""
          /\ provider' = ConfigureReturn(provider, endpoint, NoLoader.identity, <<>>)
          /\ UNCHANGED loader
       \/ /\ provider.pemPath = "missing.pem"
          /\ provider' = ConfigureReturn(provider, endpoint, NoLoader.identity,
                                         <<"no such file or directory">>)
          /\ UNCHANGED loader
       \/ /\ provider.pemPath = "id.pem"
          /\ provider' = [provider EXCEPT !.pos = "NewIdentityFromPEM"]
          /\ \E d \in PEMs : loader' = [NoLoader EXCEPT !.data = d, !.pos = "Ed25519"]
    /\ UNCHANGED <<endpoint, others, desired, state, remote, op, pc, data, loc,
                   calls, diags, prev, snap, ops, faults, edits, fn>>

\* EndpointConfig / MainnetConfig from the return of NewIdentityFromPEM, then
\* Configure to its end
IcProviderConfigured ==
    /\ provider.pos = "NewIdentityFromPEM"
    /\ loader.pos = "returned"
    /\ provider' = ConfigureReturn(provider, endpoint, loader.identity, loader.err)
    /\ UNCHANGED <<endpoint, others, loader, desired, state, remote, op, pc, data,
                   loc, calls, diags, prev, snap, ops, faults, edits, fn>>

ConfInit ==
    /\ endpoint \in LifeEndpoints
    /\ desired = UnsetDesired
    /\ state = NoState
    /\ remote = <<>>
    /\ op = "none"
    /\ pc = "done"
    /\ data = NoData
    /\ loc = LocInit
    /\ calls = <<>>
    /\ diags = NoDiags
    /\ prev = NoPrev
    /\ snap = NoSnap
    /\ ops = 0
    /\ faults = 0
    /\ edits = 0
    /\ fn = NoFn
    /\ loader = NoLoader
    /\ others = <<>>
    /\ \E path \in {"", "id.pem", "missing.pem"} :
         provider = [NoProvider EXCEPT !.pos = "Configure", !.pemPath = path]

ConfNext == IcProviderConfigure \/ NewIdentityFromPEM \/ IcProviderConfigured

ConfSpec == ConfInit /\ [][ConfNext]_vars

(***************************************************************************)
(* Several resources.  The host runs the handlers of different resources   *)
(* concurrently; every handler works on its own request, response and      *)
(* local variables and reads the one provider configuration.  The          *)
(* variables above are those of the resource whose handler takes the next  *)
(* step, `others` keeps the rest; Schedule lets another handler go on, so   *)
(* that the remote calls of the handlers interleave in every order.        *)
(***************************************************************************)
\* what belongs to one resource and its handler
Context ==
    [desired |-> desired, state |-> state, op |-> op, pc |-> pc, data |-> data,
     loc |-> loc, calls |-> calls, diags |-> diags, prev |-> prev, snap |-> snap,
     ops |-> ops]

\* variant of Resume in which the handlers share the local variables loc
ResumeSharingLocals(c) ==
    /\ desired' = c.desired
    /\ state' = c.state
    /\ op' = c.op
    /\ pc' = c.pc
    /\ data' = c.data
    /\ loc' = loc
    /\ calls' = c.calls
    /\ diags' = c.diags
    /\ prev' = c.prev
    /\ snap' = c.snap
    /\ ops' = c.ops

\* the handler of the resource with context c goes on
Resume(c) ==
    /\ desired' = c.desired
    /\ state' = c.state
    /\ op' = c.op
    /\ pc' = c.pc
    /\ data' = c.data
    /\ loc' = c.loc
    /\ calls' = c.calls
    /\ diags' = c.diags
    /\ prev' = c.prev
    /\ snap' = c.snap
    /\ ops' = c.ops

Schedule ==
    /\ \E j \in 1..Len(others) :
         /\ others' = [others EXCEPT ![j] = Context]
         /\ Resume(others[j])
    /\ UNCHANGED <<endpoint, provider, loader, fn, remote, faults, edits>>

\* the three resources of one configuration, none created yet; each is
\* applied once
ManyInit ==
    LET Resources ==
          {UnsetDesired,
           Model(IdUnknown, ListValue(<<"p1">>), DynamicValue(TFString("Hi")),
                 StringNull, PathValue("a.wasm"), StringUnknown),
           Model(IdUnknown, ListValue(<<"p0", "p1">>), DynamicNull,
                 StringValue(<<"4", "4">>), PathValue("b.wasm"),
                 StringValue(HexEncodeToString(Sum256(<<2>>))))}
        Fresh(d) ==
          [desired |-> d, state |-> NoState, op |-> "none", pc |-> "done",
           data |-> NoData, loc |-> LocInit, calls |-> <<>>, diags |-> NoDiags,
           prev |-> NoPrev, snap |-> NoSnap, ops |-> MaxOps - 1]
    IN  /\ endpoint = PathValue(LocalEndpoint)
        /\ desired \in Resources
        /\ \E d, e \in Resources : others = <<Fresh(d), Fresh(e)>>
        /\ state = NoState
        /\ remote = <<>>
        /\ op = "none"
        /\ pc = "done"
        /\ data = NoData
        /\ loc = LocInit
        /\ calls = <<>>
        /\ diags = NoDiags
        /\ prev = NoPrev
        /\ snap = NoSnap
        /\ ops = MaxOps - 1
        /\ faults = 0
        /\ edits = MaxEdits
        /\ fn = NoFn
        /\ loader = NoLoader
        /\ provider = NoProvider

ManyNext ==
    \/ Schedule
    \/ CreateBegin
    \/ ProvisionalCreateCanisterWithCycles
    \/ InferInstallMode
    \/ InstallCode
    \/ ReadCanisterInfo
    \/ GetCanisterControllers
    \/ UpdateSettings

ManySpec == ManyInit /\ [][ManyNext]_vars

(***************************************************************************)
(* Properties.  They are stated on the log of remote calls of the running  *)
(* (or last) operation, on its plan snap.plan, on the persisted state and  *)
(* on the remote canister.                                                 *)
(***************************************************************************)
Names(log) == [i \in 1..Len(log) |-> log[i].name]
IsPrefix(a, b) == Len(a) <= Len(b) /\ \A i \in 1..Len(a) : a[i] = b[i]
Issued(name) == {i \in 1..Len(calls) : calls[i].name = name}
Succeeded == pc = "done" /\ diags.errors = <<>>
Finished(o) == op = o /\ pc = "done"
LastCall == calls[Len(calls)]

AllocationCalls ==
    IF InferConfig(endpoint) = icpApi
    THEN <<"GetIcpXdrConversionRate", "Transfer", "NotifyCreateCanister">>
    ELSE <<"ProvisionalCreateCanisterWithCycles">>

\* the remote calls of an uninterrupted Create with the given plan
CreateOrder(plan) ==
    AllocationCalls
    \o (IF IsNull(plan.WasmFile) THEN <<>>
        ELSE <<"GetCanisterModuleHash", "InstallCode">>)
    \o <<"GetCanisterModuleHash", "GetCanisterControllers", "UpdateSettings">>

\* the controller list Create pushes for the given plan
CreateControllerList(plan) ==
    IF plan.Controllers.k = "known" THEN plan.Controllers.v
    ELSE <<ProviderPrincipal>>

\* C1: in Create the remote calls are issued in the order allocation,
\* InstallCode (only when wasm_file is set, after the module hash read that
\* infers the mode), read-back of module hash and controllers, UpdateSettings;
\* a call is issued only when all calls before it succeeded, UpdateSettings
\* carries the controller list and is the last call, and a successful Create
\* issued all of them.
C1_CreateCallOrder ==
    op = "Create" =>
        /\ IsPrefix(Names(calls), CreateOrder(snap.plan))
        /\ \A i \in 1..(Len(calls) - 1) : calls[i].res = "ok"
        /\ \A i \in Issued("UpdateSettings") :
              /\ i = Len(CreateOrder(snap.plan))
              /\ calls[i].controllers = CreateControllerList(snap.plan)
              /\ \A j \in Issued("InstallCode") : j < i
        /\ Succeeded => Names(calls) = CreateOrder(snap.plan)

C1_Witness ==
    /\ Finished("Create") /\ Succeeded
    /\ ~IsNull(snap.plan.WasmFile)
    /\ Issued("InstallCode") # {}
    /\ LastCall.name = "UpdateSettings"

\* C2: in Update the first remote call is UpdateSettings with the planned
\* controller list, and UninstallCode or InstallCode is issued only after
\* that call succeeded.
C2_UpdateControllersFirst ==
    op = "Update" =>
        /\ calls # <<>> =>
              /\ calls[1].name = "UpdateSettings"
              /\ calls[1].controllers = snap.plan.Controllers.v
        /\ \A i \in Issued("UninstallCode") \cup Issued("InstallCode") :
              i > 1 /\ calls[1].res = "ok"
        /\ (calls # <<>> /\ calls[1].res # "ok") => Len(calls) = 1

C2_Witness ==
    /\ Finished("Update") /\ Succeeded
    /\ Issued("InstallCode") # {}
    /\ calls[1].name = "UpdateSettings"

\* C3: a successful Create whose plan has null or unknown controllers
\* persists the one-element list holding the provider principal, and has
\* pushed that list to the remote canister.
C3_DefaultControllers ==
    (Finished("Create") /\ Succeeded /\ snap.plan.Controllers.k # "known") =>
        /\ state.present
        /\ state.data.Controllers = ListValue(<<ProviderPrincipal>>)
        /\ LastCall.name = "UpdateSettings"
        /\ LastCall.res = "ok"
        /\ LastCall.controllers = <<ProviderPrincipal>>
        /\ remote[state.data.Id.v].controllers = {ProviderPrincipal}

C3_Witness ==
    /\ Finished("Create") /\ Succeeded
    /\ IsUnknown(snap.plan.Controllers)
    /\ state.data.Controllers = ListValue(<<ProviderPrincipal>>)

\* the plan names a readable module and a non-empty checksum that differs
\* from the digest of the module's bytes
ChecksumMismatch(plan) ==
    /\ ~IsNull(plan.WasmFile)
    /\ ReadFile(plan.WasmFile.v).ok
    /\ Len(ValueString(plan.WasmSha256)) > 0
    /\ ValueString(plan.WasmSha256)
         # HexEncodeToString(Sum256(ReadFile(plan.WasmFile.v).v))

\* C4: with a checksum mismatch no InstallCode call is issued, in Create and
\* in every Update; the operation ends with an error, which is the error of
\* setCanisterCode when no remote call failed and the controllers were
\* accepted, and it writes no state.
C4_ChecksumMismatchAborts ==
    (op \in {"Create", "Update"} /\ ChecksumMismatch(snap.plan)) =>
        /\ Issued("InstallCode") = {}
        /\ pc = "done" =>
              /\ diags.errors # <<>>
              /\ state = snap.state
              /\ (calls # <<>> /\ LastCall.name = "GetCanisterModuleHash"
                    /\ LastCall.res = "ok")
                   => diags.errors = <<"Could not update code">>

C4_Witness ==
    /\ Finished("Update")
    /\ ChecksumMismatch(snap.plan)
    /\ prev.op = "Update"
    /\ calls # <<>> /\ LastCall.name = "GetCanisterModuleHash"
    /\ LastCall.res = "ok"
    /\ diags.errors = <<"Could not update code">>

\* the plan's argument cannot be encoded, or its arg_hex is no hex string
ArgumentInvalid(plan) ==
    \/ ~GetArgHex(plan).ok
    \/ ~HexDecodeString(GetArgHex(plan).v).ok

\* C5: a Create or Update that ends with a local validation failure (a
\* checksum mismatch, an argument that cannot be encoded, an invalid arg_hex;
\* no remote call failed) has attempted no remote call.
C5_ValidationBeforeRemoteCalls ==
    (/\ op \in {"Create", "Update"} /\ pc = "done"
     /\ diags.errors # <<>>
     /\ Failed(calls) = {}
     /\ ChecksumMismatch(snap.plan) \/ ArgumentInvalid(snap.plan))
        => calls = <<>>

\* C6: every InstallCode call directly follows a successful module hash
\* read, with mode install exactly when the hash read is empty and mode
\* upgrade exactly when it is not; in Create the mode is install.
C6_InstallModeFollowsHash ==
    \A i \in Issued("InstallCode") :
        /\ i > 1
        /\ calls[i - 1].name = "GetCanisterModuleHash"
        /\ calls[i - 1].res = "ok"
        /\ calls[i].mode.mode \in {"install", "upgrade"}
        /\ (calls[i].mode.mode = "install") = (calls[i - 1].hash = <<>>)
        /\ op = "Create" => calls[i].mode.mode = "install"

C6_Witness ==
    /\ op = "Update"
    /\ \E i \in Issued("InstallCode") :
          calls[i].mode.mode = "upgrade" /\ calls[i - 1].hash # <<>>

\* C7 as claimed: an InstallCode call in mode upgrade asks the platform to
\* skip the pre-upgrade hook.
C7_UpgradeSkipsPreUpgrade ==
    \A i \in Issued("InstallCode") :
        calls[i].mode.mode = "upgrade" => calls[i].mode.skip_pre_upgrade = TRUE

\* C7 as amended: an InstallCode call in mode upgrade carries
\* skip_pre_upgrade = false, so the pre-upgrade hook is not skipped.
C7_UpgradeRunsPreUpgrade ==
    \A i \in Issued("InstallCode") :
        calls[i].mode.mode = "upgrade" => calls[i].mode.skip_pre_upgrade = FALSE

C7_Witness ==
    \E i \in Issued("InstallCode") :
        calls[i].mode.mode = "upgrade" /\ calls[i].res = "ok"

\* C8: a successful Update whose plan has a null wasm_file issued
\* UninstallCode and no InstallCode, leaves the remote module hash empty and
\* persists wasm_sha256 = "".
C8_UpdateWithoutWasmUninstalls ==
    (Finished("Update") /\ Succeeded /\ IsNull(snap.plan.WasmFile)) =>
        /\ Issued("UninstallCode") # {}
        /\ Issued("InstallCode") = {}
        /\ remote[snap.plan.Id.v].module_hash = <<>>
        /\ state.data.WasmSha256 = StringValue(<<>>)

C8_Witness ==
    /\ Finished("Update") /\ Succeeded /\ IsNull(snap.plan.WasmFile)
    /\ snap.canister.module_hash # <<>>
    /\ remote[snap.plan.Id.v].module_hash = <<>>

\* uninstalling a canister that has no code succeeds
C8_WitnessEmpty ==
    /\ Finished("Update") /\ Succeeded /\ IsNull(snap.plan.WasmFile)
    /\ snap.canister.module_hash = <<>>

\* C9: an Update that re-applies the plan of the successful Update before it
\* never changes the remote canister (controllers, module hash, installed
\* argument), and when it succeeds the persisted state is the one the first
\* Update saved.
C9_UpdateTwiceNoChange ==
    (op = "Update" /\ prev.op = "Update" /\ prev.same /\ prev.ok) =>
        /\ remote[snap.plan.Id.v] = snap.canister
        /\ Succeeded => state = snap.state

C9_Witness ==
    /\ Finished("Update") /\ Succeeded
    /\ prev.op = "Update" /\ prev.same /\ prev.ok
    /\ \E i \in Issued("InstallCode") :
          calls[i].mode.mode = "upgrade" /\ calls[i].res = "ok"

\* the remote canister has the controllers and the code of the plan
RemoteMatches(plan) ==
    LET c == remote[plan.Id.v]
    IN  /\ plan.Controllers.k = "known"
        /\ c.controllers = Range(plan.Controllers.v)
        /\ IF IsNull(plan.WasmFile) THEN c.module_hash = <<>>
           ELSE /\ ReadFile(plan.WasmFile.v).ok
                /\ c.module_hash = Sum256(ReadFile(plan.WasmFile.v).v)
                /\ GetArgHex(plan).ok
                /\ HexDecodeString(GetArgHex(plan).v).ok
                /\ c.arg = HexDecodeString(GetArgHex(plan).v).v

\* an Update re-applies the plan of an Update in which one remote call
\* failed, and no transport fault hits the second run
RetriedUpdate ==
    /\ Finished("Update")
    /\ prev.op = "Update" /\ prev.same /\ ~prev.ok /\ prev.nfail = 1
    /\ \A i \in 1..Len(calls) : calls[i].res # "fault"

\* the plan passes the local checks of Update: known controllers that
\* decode and, with a module, a readable file that matches the checksum and
\* an argument that encodes and decodes
LocallyValid(plan) ==
    /\ plan.Controllers.k = "known"
    /\ \A i \in 1..Len(plan.Controllers.v) : PrincipalDecodes(plan.Controllers.v[i])
    /\ ~IsNull(plan.WasmFile) =>
          /\ ReadFile(plan.WasmFile.v).ok
          /\ ~ChecksumMismatch(plan)
          /\ ~ArgumentInvalid(plan)

\* C10 as claimed: for every desired state, the retried Update succeeds and
\* leaves the remote canister equal to the desired state.
C10_RetryAlwaysRecovers ==
    RetriedUpdate => (Succeeded /\ RemoteMatches(snap.plan))

\* C10 as amended: the same, for a desired state that passes local
\* validation and keeps the provider principal among the controllers, on a
\* canister the provider controlled when the first Update began.
C10_RetryRecoversValidPlan ==
    (/\ RetriedUpdate
     /\ LocallyValid(snap.plan)
     /\ ProviderPrincipal \in Range(snap.plan.Controllers.v)
     /\ prev.ctrl)
        => (Succeeded /\ RemoteMatches(snap.plan))

C10_Witness ==
    /\ RetriedUpdate /\ Succeeded
    /\ LocallyValid(snap.plan) /\ prev.ctrl
    /\ ProviderPrincipal \in Range(snap.plan.Controllers.v)
    /\ Issued("InstallCode") # {}
    /\ RemoteMatches(snap.plan)

\* C11: a Create that re-runs a Create which failed after it had allocated
\* its canister ends with exactly one canister allocated for the resource
\* (here: the second of the first two operations, on a platform that had no
\* canister before).
C11_CreateRetryAllocatesOnce ==
    (/\ ops = 2 /\ Finished("Create") /\ Succeeded
     /\ prev.op = "Create" /\ prev.same /\ ~prev.ok
     /\ prev.alloc)
        => (Len(remote) = 1 /\ state.data.Id = IdValue(1))

\* C12: in Create, Update and Delete a remote call that returned an error is
\* the last call of the operation (nothing follows it, it is not issued
\* again); the operation has ended with an error diagnostic and the state it
\* started with; and what the earlier calls did is still in place on a
\* canister no external actor has changed: the canister allocated, the
\* module installed, the controllers pushed, the canister stopped.
C12_RemoteErrorEndsOperation ==
    (op \in {"Create", "Update", "Delete"} /\ Failed(calls) # {}) =>
        /\ Failed(calls) = {Len(calls)}
        /\ pc = "done"
        /\ diags.errors # <<>>
        /\ state = snap.state
        /\ \A i \in 1..(Len(calls) - 1) :
              LET c == CanisterOf(calls[i].id)
              IN  /\ Allocated(<<calls[i]>>) => c.status = "running"
                  /\ (calls[i].name = "InstallCode" /\ ~c.touched)
                        => c.module_hash = Sum256(calls[i].wasm)
                  /\ (calls[i].name = "UpdateSettings" /\ ~c.touched)
                        => c.controllers = Range(calls[i].controllers)
                  /\ calls[i].name = "StopCanister"
                        => c.status \in {"stopped", "deleted"}

C12_Witness ==
    /\ Finished("Update") /\ diags.errors # <<>>
    /\ Len(calls) = 3
    /\ calls[1].name = "UpdateSettings" /\ calls[1].res = "ok"
    /\ calls[3].name = "InstallCode" /\ calls[3].res = "fault"
    /\ CanisterOf(calls[1].id).controllers = Range(calls[1].controllers)
    /\ state = snap.state

C12_WitnessDelete ==
    /\ Finished("Delete") /\ diags.errors # <<>>
    /\ Len(calls) = 2
    /\ calls[2].name = "DeleteCanister" /\ calls[2].res = "fault"
    /\ CanisterOf(calls[1].id).status = "stopped"
    /\ state.present

\* C13: when a step of Create, Update, Delete or Import failed - a remote
\* call returned an error, or the identifier of the resource or the one given
\* to Import does not decode - the operation ends with an error diagnostic.
C13_FailuresAreReported ==
    (/\ op \in {"Create", "Update", "Delete", "Import"} /\ pc = "done"
     /\ \/ Failed(calls) # {}
        \/ op \in {"Update", "Delete", "Import"}
             /\ ~CanisterIdDecodes(snap.plan.Id.v))
        => diags.errors # <<>>

\* C14: the remote calls of Delete are StopCanister and then DeleteCanister;
\* DeleteCanister is issued only after StopCanister succeeded, and a Delete
\* that reports no error has issued both and both succeeded.
C14_DeleteStopsThenDeletes ==
    op = "Delete" =>
        /\ IsPrefix(Names(calls), <<"StopCanister", "DeleteCanister">>)
        /\ Issued("DeleteCanister") # {} => calls[1].res = "ok"
        /\ Succeeded => /\ Names(calls) = <<"StopCanister", "DeleteCanister">>
                        /\ Failed(calls) = {}

C14_Witness ==
    /\ Finished("Delete") /\ Succeeded
    /\ Names(calls) = <<"StopCanister", "DeleteCanister">>
    /\ CanisterOf(calls[2].id).status = "deleted"
    /\ ~state.present

C14_WitnessStopFailed ==
    /\ Finished("Delete") /\ ~Succeeded
    /\ Names(calls) = <<"StopCanister">>

\* the state holds the given identifier, the hex of the module hash and the
\* controllers that the import read, and nothing else
AdoptsWhatWasRead(id) ==
    /\ state.present
    /\ Names(calls) = <<"GetCanisterModuleHash", "GetCanisterControllers">>
    /\ state.data = [NoData EXCEPT
                       !.Id = IdValue(id),
                       !.WasmSha256 = StringValue(HexEncodeToString(calls[1].hash)),
                       !.Controllers = ListValue(calls[2].controllers)]

\* C15: an Import that ends without an error has written a state whose id is
\* the identifier given, whose wasm_sha256 is the hex of the module hash read
\* from the canister and whose controllers are the controllers read from it.
C15_ImportAdoptsRemote ==
    (Finished("Import") /\ Succeeded) => AdoptsWhatWasRead(snap.plan.Id.v)

\* the same for an identifier that decodes
C15_DecodableImportAdoptsRemote ==
    (Finished("Import") /\ Succeeded /\ CanisterIdDecodes(snap.plan.Id.v))
        => AdoptsWhatWasRead(snap.plan.Id.v)

C16_WitnessDeletion ==
    /\ op = "ModifyPlan" /\ snap.planNull /\ diags = NoDiags

C16_WitnessUnknown ==
    /\ op = "ModifyPlan" /\ ~snap.planNull
    /\ IsUnknown(snap.plan.Controllers) /\ diags = NoDiags

\* C17: Read issues no remote call, reports nothing and writes back the
\* state it was given, attribute by attribute, whatever the remote canister
\* looks like.
C17_ReadIsPassThrough ==
    op = "Read" =>
        /\ calls = <<>>
        /\ pc = "done"
        /\ diags = NoDiags
        /\ state = snap.state
        /\ state.data = snap.plan

C17_Witness ==
    /\ op = "Read" /\ state.present /\ state = snap.state
    /\ CanisterOf(state.data.Id.v).touched
    /\ Range(state.data.Controllers.v) # CanisterOf(state.data.Id.v).controllers

C17_WitnessDeleted ==
    /\ op = "Read" /\ state.present
    /\ CanisterOf(state.data.Id.v).status = "deleted"

\* the state shows the controllers and the module hash of canister c
Reflects(c) ==
    /\ state.present
    /\ state.data.Controllers.k = "known"
    /\ Range(state.data.Controllers.v) = c.controllers
    /\ ValueString(state.data.WasmSha256) = HexEncodeToString(c.module_hash)

\* the operation began on a canister that an external actor had changed
AfterExternalChange == snap.canister.touched

\* C18 as claimed: the state produced by a Read or an Import that follows an
\* external change shows the changed canister.
C18_ReadAndImportSeeExternalChange ==
    (op \in {"Read", "Import"} /\ Succeeded /\ AfterExternalChange)
        => Reflects(snap.canister)

\* C18 as amended: after an external change, Import produces a state that
\* shows the changed canister; Read writes back the stored state without a
\* remote call or a diagnostic; Update and Delete do not read the controllers,
\* report no warning, and a successful Update stores the planned controllers.
C18_OnlyImportSeesExternalChange ==
    AfterExternalChange =>
        /\ (op = "Import" /\ Succeeded) => Reflects(snap.canister)
        /\ op = "Read" => (calls = <<>> /\ diags = NoDiags /\ state = snap.state)
        /\ op \in {"Update", "Delete"} =>
              /\ Issued("GetCanisterControllers") = {}
              /\ diags.warnings = {}
        /\ (op = "Update" /\ Succeeded)
              => state.data.Controllers = snap.plan.Controllers

C18_Witness ==
    /\ Finished("Import") /\ Succeeded /\ AfterExternalChange
    /\ snap.canister.module_hash # <<>>
    /\ Reflects(snap.canister)

C18_WitnessRead ==
    /\ op = "Read" /\ AfterExternalChange /\ ~Reflects(snap.canister)

C18_WitnessUpdate ==
    /\ Finished("Update") /\ Succeeded /\ AfterExternalChange

ShaWarning == "Expected Wasm module sha does not match canister info sha"

\* C19: a successful Create has read the module hash back after the install
\* step.  With an empty or unset planned wasm_sha256 the persisted value is
\* the hex of the hash read back (the empty string when Create installed
\* nothing and nobody else did); with a planned value the persisted value is
\* the planned one, and the warning is reported exactly when code was
\* installed and the planned value differs from the hash read back.
C19_CreateReadsHashBack ==
    (Finished("Create") /\ Succeeded) =>
        LET r == Len(calls) - 2
            hashRead == HexEncodeToString(calls[r].hash)
            planned == ValueString(snap.plan.WasmSha256)
            installed == Issued("InstallCode") # {}
        IN  /\ calls[r].name = "GetCanisterModuleHash"
            /\ \A i \in Issued("InstallCode") : i < r
            /\ planned = <<>> => state.data.WasmSha256 = StringValue(hashRead)
            /\ (planned = <<>> /\ ~installed /\ ~CanisterOf(state.data.Id.v).touched)
                  => state.data.WasmSha256 = StringValue(<<>>)
            /\ planned # <<>> => state.data.WasmSha256 = snap.plan.WasmSha256
            /\ (ShaWarning \in diags.warnings)
                  <=> (installed /\ planned # <<>> /\ planned # hashRead)

C19_Witness ==
    /\ Finished("Create") /\ Succeeded
    /\ IsUnknown(snap.plan.WasmSha256)
    /\ Issued("InstallCode") # {}
    /\ state.data.WasmSha256 = StringValue(HexEncodeToString(Sum256(<<1>>)))

C19_WitnessWarning ==
    /\ Finished("Create") /\ Succeeded
    /\ ShaWarning \in diags.warnings
    /\ state.data.WasmSha256 = snap.plan.WasmSha256

C19_WitnessNoCode ==
    /\ Finished("Create") /\ Succeeded
    /\ Issued("InstallCode") = {}
    /\ state.data.WasmSha256 = StringValue(<<>>)

MeteredCalls == {"GetIcpXdrConversionRate", "Transfer", "NotifyCreateCanister"}
ProvisionalCalls == {"ProvisionalCreateCanisterWithCycles"}

\* the provider configuration resolves to the production endpoint: no
\* endpoint is given, or the one given is the production endpoint as written
\* in the provider
ProductionEndpoint ==
    \/ endpoint.k \in {"null", "unknown"}
    \/ endpoint.k = "known" /\ endpoint.v = "https://icp-api.io/"

C20_WitnessNull ==
    /\ Finished("Create") /\ Succeeded /\ endpoint = PathNull
    /\ calls[1].name = "GetIcpXdrConversionRate"

C20_WitnessExplicit ==
    /\ Finished("Create") /\ Succeeded /\ endpoint = PathValue(icpApi)
    /\ calls[1].name = "GetIcpXdrConversionRate"

C20_WitnessProvisional ==
    /\ Finished("Create") /\ Succeeded /\ endpoint = PathValue(LocalEndpoint)
    /\ calls[1].name = "ProvisionalCreateCanisterWithCycles"

C20_WitnessNoSlash ==
    /\ Finished("Create") /\ Succeeded /\ endpoint = PathValue(icpApiNoSlash)
    /\ calls[1].name = "ProvisionalCreateCanisterWithCycles"

(***************************************************************************)
(* C21: a configuration that sets both arg and arg_hex is rejected by      *)
(* configuration validation, and with such a configuration no lifecycle    *)
(* operation starts and no remote call is made.                            *)
(***************************************************************************)
BothSet(d) == ~IsNull(d.Arg) /\ ~IsNull(d.ArgHex)

C21_ConflictingArgsNeverRun ==
    /\ (pc # "done" \/ op \in {"Create", "Update"}) => ~BothSet(snap.plan)
    /\ BothSet(desired) =>
         /\ op \in {"none", "ValidateConfig"}
         /\ pc = "done" /\ calls = <<>> /\ remote = <<>> /\ ~state.present
         /\ op = "ValidateConfig" => diags.errors # <<>>

C21_Witness ==
    /\ BothSet(desired)
    /\ op = "ValidateConfig"
    /\ diags.errors = <<"Invalid Attribute Combination">>

(***************************************************************************)
(* C22: the argument of every InstallCode call is the bytes that arg_hex   *)
(* spells when arg_hex is set, else no bytes at all when arg is null, else *)
(* the serialization of the argument list that holds the encoded arg.      *)
(***************************************************************************)
InstallCodeCalls == {i \in 1..Len(calls) : calls[i].name = "InstallCode"}

C22_InstallCodeArgument ==
    op \in {"Create", "Update"} =>
      \A i \in InstallCodeCalls :
        LET plan == snap.plan
        IN  IF ~IsNull(plan.ArgHex)
            THEN /\ HexDecodeString(plan.ArgHex.v).ok
                 /\ calls[i].arg = HexDecodeString(plan.ArgHex.v).v
            ELSE IF IsNull(plan.Arg)
            THEN calls[i].arg = <<>>
            ELSE /\ TFValToCandid(plan.Arg.v).ok
                 /\ calls[i].arg = Marshal(TFValToCandid(plan.Arg.v).v)

C22_Witness ==
    /\ op = "Create" /\ InstallCodeCalls # {}
    /\ snap.plan.ArgHex = StringValue(<<"4", "A">>)
    /\ calls[Len(calls)].arg = <<74>>

C22_WitnessNoArgument ==
    /\ op = "Create" /\ InstallCodeCalls # {}
    /\ IsNull(snap.plan.ArgHex) /\ IsNull(snap.plan.Arg)
    /\ calls[Len(calls)].name = "InstallCode"
    /\ calls[Len(calls)].arg = <<>>

C22_WitnessEncoded ==
    /\ op = "Update" /\ InstallCodeCalls # {}
    /\ snap.plan.Arg = DynamicValue(TFString("Hi"))
    /\ calls[Len(calls)].name = "InstallCode"
    /\ calls[Len(calls)].arg = <<68, 73, 68, 76, 0, 1, 113, 2, 72, 105>>

(***************************************************************************)
(* C23: did_encode of a value built only from strings and objects without  *)
(* the reserved keys succeeds, gives text for a string and a record of the *)
(* encoded entries for an object, and its bytes are those of the reference *)
(* encoding of the literal, in whatever order the entries are visited.     *)
(***************************************************************************)
ReservedKeys == {"__didType", "__didValue"}
KeyOrder == <<"g", "h", "__didType", "__didValue">>

RECURSIVE Plain(_)
Plain(v) ==
    \/ v.t = "string"
    \/ /\ v.t = "object"
       /\ \A i \in 1..Len(v.m) : v.m[i].key \notin ReservedKeys /\ Plain(v.m[i].val)

\* the literal of a plain value, its fields written in the order of KeyOrder
RECURSIVE Literal(_)
Literal(v) ==
    IF v.t = "string" THEN CandidText(v.s)
    ELSE LET keys == SelectSeq(KeyOrder, LAMBDA k : HasKey(v.m, k))
         IN  CandidRecord([i \in 1..Len(keys) |->
                             Entry(keys[i], Literal(Lookup(v.m, keys[i])))])

C23_PlainValuesEncodeAsLiterals ==
    (fn.ran /\ Plain(fn.input)) =>
      /\ fn.ok
      /\ fn.result = HexEncodeToString(EncodeValueString(Literal(fn.input)))

C23_Witness ==
    /\ fn.ran /\ fn.ok
    /\ fn.input = TFObject(<<Entry("h", TFString("Yo")), Entry("g", TFString("Hi"))>>)
    /\ fn.result = HexEncodeToString(<<68, 73, 68, 76, 1, 108, 2, 103, 113, 104, 113,
                                       1, 0, 2, 72, 105, 2, 89, 111>>)

C23_WitnessNested ==
    /\ fn.ran /\ fn.ok
    /\ fn.input = TFObject(<<Entry("h", TFString("Hi")),
                             Entry("g", TFObject(<<Entry("g", TFString("Hi"))>>))>>)
    /\ fn.result = HexEncodeToString(<<68, 73, 68, 76, 2, 108, 1, 103, 113,
                                       108, 2, 103, 0, 104, 113,
                                       1, 1, 2, 72, 105, 2, 72, 105>>)

C23_WitnessText ==
    /\ fn.ran /\ fn.ok
    /\ fn.input = TFString("Hi")
    /\ fn.result = <<"4", "4", "4", "9", "4", "4", "4", "c", "0", "0", "0", "1",
                     "7", "1", "0", "2", "4", "8", "6", "9">>

(***************************************************************************)
(* C24: did_encode of the wrapper {__didType: "text", __didValue: v} for a *)
(* string v, and of {__didType: "record", __didValue: m} for an object m   *)
(* without reserved keys, gives what did_encode gives for v and for m, and *)
(* never the record of the wrapper's own two fields.                       *)
(***************************************************************************)
IsWrapperOf(val, ty, v) ==
    /\ val.t = "object" /\ Len(val.m) = 2
    /\ HasKey(val.m, "__didType") /\ HasKey(val.m, "__didValue")
    /\ Lookup(val.m, "__didType") = TFString(ty)
    /\ Lookup(val.m, "__didValue") = v

NoReservedKey(v) ==
    v.t = "object" /\ \A i \in 1..Len(v.m) : v.m[i].key \notin ReservedKeys

SameAsEncoding(v) ==
    /\ fn.ok = ArgEncodeFunctionRun(v).ok
    /\ fn.result = ArgEncodeFunctionRun(v).result
    /\ fn.ok => LET asRecord == readRecordValue(fn.input)
                IN  asRecord.ok =>
                      fn.result # HexEncodeToString(Marshal(asRecord.v))

C24_WrapperPrecedence ==
    fn.ran =>
      \A v \in Payloads :
        /\ (v.t = "string" /\ IsWrapperOf(fn.input, "text", v)) => SameAsEncoding(v)
        /\ (NoReservedKey(v) /\ IsWrapperOf(fn.input, "record", v)) => SameAsEncoding(v)

C24_Witness ==
    /\ fn.ran /\ fn.ok
    /\ IsWrapperOf(fn.input, "text", TFString("Hi"))
    /\ fn.result = HexEncodeToString(<<68, 73, 68, 76, 0, 1, 113, 2, 72, 105>>)

C24_WitnessRecord ==
    /\ fn.ran /\ fn.ok
    /\ IsWrapperOf(fn.input, "record", TFObject(<<Entry("g", TFString("Hi"))>>))
    /\ fn.result = HexEncodeToString(<<68, 73, 68, 76, 1, 108, 1, 103, 113,
                                       1, 0, 2, 72, 105>>)

C24_WitnessRecordFails ==
    /\ fn.ran /\ ~fn.ok
    /\ IsWrapperOf(fn.input, "record", TFObject(<<Entry("g", TFBool("true"))>>))

(***************************************************************************)
(* C25: did_encode of an object that has both reserved keys and a          *)
(* __didType other than "text" and "record" returns an error, whatever     *)
(* __didValue is.                                                          *)
(***************************************************************************)
HasBothReservedKeys(val) ==
    val.t = "object" /\ HasKey(val.m, "__didType") /\ HasKey(val.m, "__didValue")

UnknownTag(val) ==
    /\ HasBothReservedKeys(val)
    /\ Lookup(val.m, "__didType") \notin {TFString("text"), TFString("record")}

C25_UnknownTagAlwaysErrors ==
    (fn.ran /\ UnknownTag(fn.input)) => ~fn.ok

\* the part of C25 that holds: an unknown tag over a payload that cannot be
\* encoded is an error
C25_UnknownTagErrorsOnBadPayload ==
    (fn.ran /\ UnknownTag(fn.input)
       /\ ~TFValToCandid(Lookup(fn.input.m, "__didValue")).ok) => ~fn.ok

(***************************************************************************)
(* C26: did_encode of a wrapper whose tag is recognized but whose payload  *)
(* does not fit it ("text" over a value that is no string, "record" over a *)
(* value that is no object or has an entry that cannot be encoded) returns *)
(* an error; the wrapper is not encoded as an ordinary record.             *)
(***************************************************************************)
IsWrapper(val) == HasBothReservedKeys(val) /\ Len(val.m) = 2

MisfitPayload(val) ==
    LET ty == Lookup(val.m, "__didType")
        v == Lookup(val.m, "__didValue")
    IN  \/ ty = TFString("text") /\ v.t # "string"
        \/ ty = TFString("record") /\ (v.t # "object" \/ ~readRecordValue(v).ok)

C26_NoFallbackAfterTag ==
    (fn.ran /\ IsWrapper(fn.input) /\ MisfitPayload(fn.input)) => ~fn.ok

\* the part of C26 that holds: a misfit payload that cannot be encoded at all
C26_MisfitErrorsOnBadPayload ==
    (fn.ran /\ IsWrapper(fn.input) /\ MisfitPayload(fn.input)
       /\ ~TFValToCandid(Lookup(fn.input.m, "__didValue")).ok) => ~fn.ok

(***************************************************************************)
(* C27: an object that has the two reserved keys together with another key *)
(* is not read as a wrapper: did_encode gives the ordinary record of all   *)
(* its entries, or fails as that record does.                              *)
(***************************************************************************)
AsOrdinaryRecord(val) ==
    LET rec == readRecordValue(val)
    IN  /\ fn.ok = rec.ok
        /\ rec.ok => fn.result = HexEncodeToString(Marshal(rec.v))

C27_WrapperNeedsExactKeys ==
    (fn.ran /\ HasBothReservedKeys(fn.input) /\ Len(fn.input.m) > 2)
      => AsOrdinaryRecord(fn.input)

\* what the code does instead: the other keys are ignored
C27_ExtraKeysAreIgnored ==
    (fn.ran /\ HasBothReservedKeys(fn.input) /\ Len(fn.input.m) > 2
       /\ Lookup(fn.input.m, "__didType") = TFString("text")
       /\ Lookup(fn.input.m, "__didValue").t = "string")
      => /\ fn.ok
         /\ fn.result = ArgEncodeFunctionRun(Lookup(fn.input.m, "__didValue")).result

(***************************************************************************)
(* C28: did_encode of a value that is a boolean, a number or a list, or    *)
(* that holds one anywhere inside an object, returns an error.             *)
(***************************************************************************)
RECURSIVE HoldsOtherKind(_)
HoldsOtherKind(v) ==
    \/ v.t \notin {"string", "object"}
    \/ v.t = "object" /\ \E i \in 1..Len(v.m) : HoldsOtherKind(v.m[i].val)

C28_OtherKindsAreErrors ==
    (fn.ran /\ HoldsOtherKind(fn.input)) => ~fn.ok

\* the part of C28 that holds: objects in which no wrapper has further keys
RECURSIVE NoWrapperWithExtraKeys(_)
NoWrapperWithExtraKeys(v) ==
    v.t = "object" =>
      /\ ~(HasBothReservedKeys(v) /\ Len(v.m) > 2)
      /\ \A i \in 1..Len(v.m) : NoWrapperWithExtraKeys(v.m[i].val)

C28_OtherKindsAreErrorsOutsideWrappers ==
    (fn.ran /\ HoldsOtherKind(fn.input) /\ NoWrapperWithExtraKeys(fn.input)) => ~fn.ok

(***************************************************************************)
(* C29: a resource configured with arg_hex = did_encode(v) hands to        *)
(* InstallCode the bytes that the resource configured with arg = v handed  *)
(* to it, and arg = v fails to encode exactly when did_encode(v) fails.    *)
(***************************************************************************)
\* the running Update applies arg_hex = did_encode(v) to the canister that a
\* Create with arg = v installed
EncodedAfterPlain ==
    /\ op = "Update" /\ fn.ran /\ fn.ok
    /\ IsNull(snap.plan.Arg) /\ snap.plan.ArgHex = StringValue(fn.result)
    /\ snap.state.present /\ snap.state.data.Arg = DynamicValue(fn.input)
    /\ snap.canister.module_hash # <<>>

\* a Create with arg = v has ended and did_encode(v) has been called
PlainCreateEnded ==
    /\ op = "Create" /\ pc = "done" /\ fn.ran
    /\ snap.plan.Arg = DynamicValue(fn.input) /\ IsNull(snap.plan.ArgHex)

CouldNotReadArgument == "Could not read argument" \in Range(diags.errors)

C29_ArgEqualsEncodedArgHex ==
    /\ EncodedAfterPlain =>
         \A i \in InstallCodeCalls : calls[i].arg = snap.canister.arg
    /\ (fn.ran /\ state.present /\ state.data.Arg = DynamicValue(fn.input)) => fn.ok
    /\ PlainCreateEnded =>
         /\ fn.ok => ~CouldNotReadArgument
         /\ ~fn.ok => /\ diags.errors # <<>>
                      /\ InstallCodeCalls = {}
                      /\ Allocated(calls) => CouldNotReadArgument

C29_Witness ==
    /\ EncodedAfterPlain /\ pc = "done" /\ diags.errors = <<>>
    /\ InstallCodeCalls # {}
    /\ fn.input = TFObject(<<Entry("g", TFString("Hi"))>>)
    /\ calls[Len(calls)].arg = <<68, 73, 68, 76, 1, 108, 1, 103, 113, 1, 0, 2, 72, 105>>

C29_WitnessBothFail ==
    /\ PlainCreateEnded /\ ~fn.ok /\ CouldNotReadArgument
    /\ fn.input = TFBool("true")

(***************************************************************************)
(* C30: NewIdentityFromPEM calls the parsers of Ed25519, secp256k1 and     *)
(* prime256v1 in this order and returns the identity of the first scheme   *)
(* that parses, calling no later parser; when none parses it returns no    *)
(* identity and an error that holds the three parse errors.                *)
(***************************************************************************)
Parses(l) == {i \in 1..3 : l.data[Schemes[i]].ok}

FirstParsing(l) == CHOOSE i \in Parses(l) : \A j \in Parses(l) : i <= j

C30_FirstParsingSchemeWins ==
    /\ loader.pos # "none" => IsPrefix(loader.tried, Schemes)
    /\ loader.pos = "returned" =>
         IF Parses(loader) # {}
         THEN /\ loader.identity = [scheme |-> Schemes[FirstParsing(loader)], key |-> "key"]
              /\ loader.tried = SubSeq(Schemes, 1, FirstParsing(loader))
              /\ loader.err = <<>>
         ELSE /\ loader.identity = NoLoader.identity
              /\ loader.tried = Schemes
              /\ loader.err = [i \in 1..3 |-> loader.data[Schemes[i]].err]

C30_Witness ==
    /\ loader.pos = "returned"
    /\ ~loader.data["Ed25519"].ok
    /\ loader.data["Secp256k1"].ok /\ loader.data["Prime256v1"].ok
    /\ loader.identity.scheme = "Secp256k1"
    /\ loader.tried = <<"Ed25519", "Secp256k1">>

C30_WitnessNoneParses ==
    /\ loader.pos = "returned"
    /\ loader.identity.scheme = "nil"
    /\ loader.err = <<"no pem block", "invalid block type", "invalid key">>

(***************************************************************************)
(* C31: the state persisted by a successful Create or Update has a known   *)
(* controllers list; an Update whose planned controllers are null or       *)
(* unknown ends with an error and without a remote call.                   *)
(***************************************************************************)
ControllersNotPlanned == snap.plan.Controllers.k \in {"null", "unknown"}

C31_ControllersAlwaysKnown ==
    /\ state.present => state.data.Controllers.k = "known"
    /\ (op = "Update" /\ ControllersNotPlanned) =>
         /\ pc = "done"
         /\ calls = <<>>
         /\ diags.errors = <<"Controllers not set">>
         /\ state = snap.state

C31_Witness ==
    /\ Finished("Update") /\ IsUnknown(snap.plan.Controllers)
    /\ diags.errors = <<"Controllers not set">>
    /\ calls = <<>>
    /\ state.present /\ state.data.Controllers = ListValue(<<ProviderPrincipal>>)

C31_WitnessCreateDefaults ==
    /\ Finished("Create") /\ Succeeded /\ IsNull(snap.plan.Controllers)
    /\ state.present /\ state.data.Controllers = ListValue(<<ProviderPrincipal>>)

(***************************************************************************)
(* C32: Create installs the code before it hands the canister over: every  *)
(* call of Create on the new canister is issued while the provider         *)
(* principal controls it, the controller push is the last call, and a      *)
(* Create that succeeds with a wasm_file and planned controllers without   *)
(* the provider principal has installed the module.                        *)
(***************************************************************************)
OnNewCanister ==
    pc \in {"InferInstallMode", "InstallCode", "ReadCanisterInfo",
            "GetCanisterControllers", "UpdateSettings"}

HandsOver ==
    /\ snap.plan.Controllers.k = "known"
    /\ ProviderPrincipal \notin Range(snap.plan.Controllers.v)

C32_CodeBeforeHandOver ==
    op = "Create" =>
        /\ OnNewCanister => CallerControls(remote[loc.canisterId])
        /\ \A i \in 1..Len(calls) :
             /\ calls[i].name \notin MeteredCalls => calls[i].res # "reject"
             /\ calls[i].name = "UpdateSettings" => i = Len(calls) /\ pc = "done"
        /\ (Succeeded /\ HandsOver /\ ~IsNull(snap.plan.WasmFile)) =>
             /\ \E i \in Issued("InstallCode") : calls[i].res = "ok"
             /\ remote[LastCall.id].module_hash = Sum256(ReadFile(snap.plan.WasmFile.v).v)
             /\ remote[LastCall.id].controllers = Range(snap.plan.Controllers.v)

C32_Witness ==
    /\ Finished("Create") /\ Succeeded
    /\ snap.plan.Controllers = ListValue(<<"p1">>)
    /\ snap.plan.WasmFile = PathValue("a.wasm")
    /\ Names(calls) = <<"ProvisionalCreateCanisterWithCycles", "GetCanisterModuleHash",
                        "InstallCode", "GetCanisterModuleHash",
                        "GetCanisterControllers", "UpdateSettings">>
    /\ remote[LastCall.id].controllers = {"p1"}
    /\ remote[LastCall.id].module_hash # <<>>

(***************************************************************************)
(* C34: an operation planned with controllers = [] pushes the empty        *)
(* controller set, and once the push was accepted the operation ends by    *)
(* persisting the empty list; the default replaces null and unknown        *)
(* controllers only.                                                       *)
(***************************************************************************)
EmptyPlanned == snap.plan.Controllers = ListValue(<<>>)

PushAccepted == \E i \in Issued("UpdateSettings") : calls[i].res = "ok"

EmptyPushedAndPersisted(o) ==
    (op = o /\ EmptyPlanned) =>
        /\ \A i \in Issued("UpdateSettings") : calls[i].controllers = <<>>
        /\ (pc = "done" /\ PushAccepted) =>
             /\ diags.errors = <<>>
             /\ state.present /\ state.data.Controllers = ListValue(<<>>)
             /\ remote[LastCall.id].controllers = {}

C34_EmptyControllersKept ==
    EmptyPushedAndPersisted("Create") /\ EmptyPushedAndPersisted("Update")

\* the part that holds: Create, and the push of Update
C34_CreateKeepsEmptyControllers ==
    /\ EmptyPushedAndPersisted("Create")
    /\ (op = "Update" /\ EmptyPlanned) =>
         \A i \in Issued("UpdateSettings") : calls[i].controllers = <<>>
    /\ (Finished("Create") /\ Succeeded
          /\ state.data.Controllers = ListValue(<<ProviderPrincipal>>)
          /\ snap.plan.Controllers # ListValue(<<ProviderPrincipal>>)) =>
         snap.plan.Controllers.k \in {"null", "unknown"}

C34_CreateWitness ==
    /\ Finished("Create") /\ Succeeded /\ EmptyPlanned
    /\ state.data.Controllers = ListValue(<<>>)
    /\ remote[LastCall.id].controllers = {}

\* an Update planned with controllers = [] has emptied the controller set and
\* failed
C34_UpdateLockedOut ==
    /\ Finished("Update") /\ EmptyPlanned /\ PushAccepted
    /\ diags.errors # <<>>
    /\ remote[snap.plan.Id.v].controllers = {}
    /\ state.data.Controllers # ListValue(<<>>)

(***************************************************************************)
(* C35: the state persisted by a successful Create or Update has a known   *)
(* wasm_sha256: the empty string when the canister has no code, otherwise  *)
(* the planned checksum or the hash of the installed module.               *)
(***************************************************************************)
PersistedShaIsKnown ==
    LET sha == state.data.WasmSha256
        c == remote[state.data.Id.v]
    IN  /\ sha.k = "known"
        /\ c.module_hash = <<>> => sha.v = <<>>
        /\ c.module_hash # <<>> =>
             \/ sha.v = HexEncodeToString(c.module_hash)
             \/ snap.plan.WasmSha256.k = "known" /\ sha.v = snap.plan.WasmSha256.v

C35_PersistedShaKnown ==
    (op \in {"Create", "Update"} /\ Succeeded) => PersistedShaIsKnown

\* the part that holds: Create with a checksum only beside a module, and
\* Update that uninstalls or whose plan carries a checksum
C35_PersistedShaKnownWhenPlanned ==
    /\ (Finished("Create") /\ Succeeded
          /\ ~(IsNull(snap.plan.WasmFile) /\ snap.plan.WasmSha256.k = "known")) =>
         PersistedShaIsKnown
    /\ (Finished("Update") /\ Succeeded
          /\ (IsNull(snap.plan.WasmFile) \/ snap.plan.WasmSha256.k = "known")) =>
         PersistedShaIsKnown

\* a successful Update has persisted an unknown wasm_sha256
C35_UpdatePersistsUnknownSha ==
    /\ Finished("Update") /\ Succeeded
    /\ \E i \in Issued("InstallCode") : calls[i].res = "ok"
    /\ IsUnknown(state.data.WasmSha256)

(***************************************************************************)
(* C36: the payload of a wrapper with a recognized tag is read as the kind *)
(* the tag names and never as a wrapper, also when the payload has the two *)
(* reserved keys itself: under "record" it gives the record of its         *)
(* entries, each encoded with the full resolution order, under "text" it   *)
(* is no text.                                                             *)
(***************************************************************************)
WrapsWrapper(val) ==
    /\ IsWrapper(val)
    /\ Lookup(val.m, "__didType") \in {TFString("text"), TFString("record")}
    /\ HasBothReservedKeys(Lookup(val.m, "__didValue"))

ReadByTag(val) ==
    IF Lookup(val.m, "__didType") = TFString("text")
    THEN readTextValue(Lookup(val.m, "__didValue"))
    ELSE readRecordValue(Lookup(val.m, "__didValue"))

C36_PayloadReadByTag ==
    (fn.ran /\ WrapsWrapper(fn.input)) =>
        LET r == ReadByTag(fn.input)
        IN  /\ fn.ok = r.ok
            /\ r.ok => fn.result = HexEncodeToString(Marshal(r.v))

\* the part that holds: the tag "record"
C36_RecordPayloadReadAsRecord ==
    (fn.ran /\ WrapsWrapper(fn.input)
       /\ Lookup(fn.input.m, "__didType") = TFString("record")) =>
        LET r == ReadByTag(fn.input)
        IN  /\ fn.ok = r.ok
            /\ r.ok => fn.result = HexEncodeToString(Marshal(r.v))

\* did_record(did_text("Hi")) is the record of the two fields of its payload
C36_RecordOfWrapper ==
    /\ fn.ran /\ fn.ok
    /\ fn.input = Wrapper(TFString("record"), Wrapper(TFString("text"), TFString("Hi")))
    /\ fn.result = HexEncodeToString(EncodeValueString(
                     CandidRecord(<<Entry("__didType", CandidText("text")),
                                    Entry("__didValue", CandidText("Hi"))>>)))

\* did_text(did_text("Hi")) succeeds: the payload was read as a wrapper
C36_TextOfWrapperUnwrapped ==
    /\ fn.ran /\ fn.ok
    /\ fn.input = Wrapper(TFString("text"), Wrapper(TFString("text"), TFString("Hi")))
    /\ fn.result = HexEncodeToString(EncodeValueString(
                     CandidRecord(<<Entry("__didType", CandidText("text")),
                                    Entry("__didValue", CandidText("Hi"))>>)))

(***************************************************************************)
(* C37: on the production endpoint Create obtains the canister by the      *)
(* conversion rate query, the ledger transfer and the creation             *)
(* notification, in this order: each call is issued only after the one     *)
(* before it returned its result, the canister id exists only after an     *)
(* accepted notification, and a call that fails ends Create with an error, *)
(* with no further call (nothing undoes a transfer) and no state.          *)
(***************************************************************************)
Metered == op = "Create" /\ InferConfig(endpoint) = icpApi

MeteredOrder == <<"GetIcpXdrConversionRate", "Transfer", "NotifyCreateCanister">>

HasCanisterId ==
    \/ Len(calls) > 3
    \/ pc \notin {"done", "GetIcpXdrConversionRate", "Transfer", "NotifyCreateCanister"}

C37_MeteredCreationOrder ==
    Metered =>
        /\ \A i \in 1..Len(calls) :
             /\ i <= 3 => calls[i].name = MeteredOrder[i]
             /\ i > 3 => calls[i].name \notin MeteredCalls
             /\ i > 1 => calls[i - 1].res = "ok"
        /\ HasCanisterId =>
             /\ Len(calls) >= 3
             /\ calls[3].res = "ok"
             /\ calls[3].id \in 1..Len(remote)
        /\ \A i \in 1..Len(calls) :
             (i <= 3 /\ calls[i].res # "ok") =>
                /\ pc = "done" /\ Len(calls) = i
                /\ diags.errors = <<"Could not create canister">>
                /\ state = snap.state

C37_Witness ==
    /\ Metered /\ pc = "done"
    /\ Names(calls) = MeteredOrder
    /\ calls[2].res = "ok" /\ calls[3].res = "reject"
    /\ diags.errors = <<"Could not create canister">>
    /\ ~state.present

C37_WitnessCreated ==
    /\ Metered /\ Succeeded
    /\ Len(calls) > 3 /\ calls[3].res = "ok"
    /\ state.present /\ state.data.Id = IdValue(calls[3].id)

C37_WitnessNoRate ==
    /\ Metered /\ pc = "done"
    /\ Len(calls) = 1 /\ calls[1].res = "reject"

(***************************************************************************)
(* C38: Configure ends without a panic for every endpoint and every        *)
(* credential path; when the configuration cannot be resolved it reports   *)
(* an error and hands no configuration to the resources, otherwise it      *)
(* hands over the configuration with the resolved host.                    *)
(***************************************************************************)
ConfigureEndsWell ==
    /\ provider.pos # "panic"
    /\ provider.pos = "done" =>
         IF provider.errors # <<>>
         THEN provider.resourceData = NoProvider.resourceData
         ELSE /\ provider.resourceData.host = InferConfig(endpoint)
              /\ provider.resourceData.identity # NoLoader.identity

C38_ConfigureNeverCrashes == ConfigureEndsWell

\* the part that holds: a credential path is set
C38_ConfigureWithCredentials ==
    provider.pemPath # "" => ConfigureEndsWell

\* without a credential path Configure panics, whatever the endpoint is
C38_PanicsWithoutCredentials ==
    /\ provider.pemPath = "" /\ provider.pos = "panic"
    /\ endpoint = PathValue(LocalEndpoint)

C38_FailsOnUnparsedKey ==
    /\ provider.pos = "done" /\ provider.errors = <<"Could not set up IC agent">>
    /\ loader.pos = "returned" /\ Len(loader.err) = 3
    /\ provider.resourceData = NoProvider.resourceData

C38_ConfiguredWithIdentity ==
    /\ provider.pos = "done" /\ provider.errors = <<>>
    /\ provider.resourceData = [host |-> icpApi,
                                identity |-> [scheme |-> "Ed25519", key |-> "key"]]
    /\ endpoint = PathNull

(***************************************************************************)
(* C33: concurrent Creates of different resources do not interfere: under  *)
(* every interleaving of their remote calls each resource gets a canister  *)
(* of its own, every call of a handler names the canister of its own       *)
(* resource, a successful Create leaves the state and the canister that    *)
(* its own desired attributes determine, and no step writes the provider   *)
(* configuration.                                                          *)
(***************************************************************************)
AllResources == <<Context>> \o others

\* the canisters handed to the handler of c, as its call log reports them
CanistersOf(c) ==
    {c.calls[i].id : i \in {k \in 1..Len(c.calls) :
                              /\ c.calls[k].name = "ProvisionalCreateCanisterWithCycles"
                              /\ c.calls[k].res = "ok"}}

\* state and canister of a successful Create, from the desired attributes alone
CreatedAsDesired(c) ==
    LET d == c.desired
        id == c.state.data.Id.v
        controllers == IF d.Controllers.k = "known" THEN d.Controllers.v
                       ELSE <<ProviderPrincipal>>
        hash == IF IsNull(d.WasmFile) THEN <<>> ELSE Sum256(ReadFile(d.WasmFile.v).v)
        arg == IF IsNull(d.WasmFile) THEN <<>>
               ELSE IF ~IsNull(d.ArgHex) THEN HexDecodeString(d.ArgHex.v).v
               ELSE IF IsNull(d.Arg) THEN <<>>
               ELSE EncodeValueString(Literal(d.Arg.v))
    IN  /\ c.state.present
        /\ CanistersOf(c) = {id}
        /\ c.state.data = [d EXCEPT !.Id = IdValue(id),
                                    !.Controllers = ListValue(controllers),
                                    !.WasmSha256 = IF d.WasmSha256.k = "known"
                                                   THEN d.WasmSha256
                                                   ELSE StringValue(HexEncodeToString(hash))]
        /\ remote[id].controllers = Range(controllers)
        /\ remote[id].module_hash = hash
        /\ remote[id].arg = arg

ResourcesIndependent ==
    /\ \A i, j \in 1..Len(AllResources) :
         i # j => CanistersOf(AllResources[i]) \cap CanistersOf(AllResources[j]) = {}
    /\ \A i \in 1..Len(AllResources) :
         LET c == AllResources[i]
         IN  /\ \A k \in 1..Len(c.calls) :
                  c.calls[k].id # 0 => c.calls[k].id \in CanistersOf(c)
             /\ c.pc \notin {"done", "ProvisionalCreateCanisterWithCycles"} =>
                  c.loc.canisterId \in CanistersOf(c)
             /\ (c.op = "Create" /\ c.pc = "done" /\ c.diags.errors = <<>>) =>
                  CreatedAsDesired(c)

C33_ConcurrentCreatesIndependent ==
    /\ []ResourcesIndependent
    /\ [][endpoint' = endpoint /\ provider' = provider]_vars

\* three Creates have succeeded, the first to allocate was the last to end
C33_Witness ==
    /\ \A i \in 1..Len(AllResources) :
         /\ AllResources[i].op = "Create" /\ AllResources[i].pc = "done"
         /\ AllResources[i].diags.errors = <<>>
    /\ Len(remote) = 3
    /\ state.data.Id = IdValue(1)
    /\ state.data.Arg = DynamicValue(TFString("Hi"))
    /\ remote[1].controllers = {"p1"}
    /\ others[1].state.data.Id = IdValue(3)
    /\ others[2].state.data.Id = IdValue(2)

\* handlers are in the middle of their calls at the same time
C33_WitnessInterleaved ==
    /\ pc = "InstallCode"
    /\ Len(others) = 2
    /\ others[1].pc = "UpdateSettings"
    /\ others[2].pc = "GetCanisterControllers"

====
